---- MODULE Spec2Model ----
(***************************************************************************)
(* A model of carla1s: the Context (session), its Actor registry and the   *)
(* dependency-ordered spawn, the deferred Actor configuration, the sensor  *)
(* data slot, and the manual / passive executors.                          *)
(*                                                                         *)
(* Python values are modelled as follows: None is the string "none" (or    *)
(* NoActor for an actor reference), a bool option is "True" / "False", an  *)
(* exception is the name of its class, a list is a sequence, and a dict is *)
(* a sequence of <<key, value>> pairs in insertion order.                  *)
(***************************************************************************)
EXTENDS Integers, Sequences, FiniteSets, TLC

\* ------------------------------------------------------------------ bounds
NumActors == 3
Actors == 1..NumActors
NoActor == 0
\* The default of fixed_delta_seconds in ManualExecutor.__init__ (0.05 s), one
\* unit of simulated time.
DefaultDelta == 1
\* The ManualExecutors (one per client) that enter against the same server.
NumDrivers == 3
Drivers == 1..NumDrivers
\* The Actors a session scenario builds through the factory.
NumSessionActors == 2
SessionActors == 1..NumSessionActors
\* The Actors a configuration scenario configures and spawns one by one.
NumConfigActors == 1
ConfigActors == 1..NumConfigActors
\* The attribute dicts: the dict of the default argument "attributes = {}" of
\* Actor.__init__, the dict of one ActorTemplate, and the dicts that the
\* statement "attributes = {}" of ActorFactory.create makes, one per call.
MaxBags == 3
DefaultBag == 0
TemplateBag == 1
Bags == DefaultBag..MaxBags
AttrKeys == {"role_name", "color"}
AttrValues == {"red"}
EmptyDict == [k \in AttrKeys |-> "unset"]
\* The frames the server delivers to one sensor.
MaxFrames == 5
\* The clocks run up to MaxTime, a wait_* argument up to MaxWait, and one
\* server step or one tick() advances a clock by 1..MaxStep.
MaxTime == 4
MaxWait == 2
MaxStep == 2

VARIABLES
    \* ---- Context and Actor objects
    parent,        \* Actor._parent of every constructed Actor (NoActor: None)
    actors,        \* Context._actors, the registered Actors in registration order
    entity,        \* Actor._entity: "none" (None), "alive", "dead" (not is_alive)
    client,        \* Context._client: "none" or "client"
    isSensor,      \* whether the Actor is an instance of Sensor
    listening,     \* carla.Sensor.is_listening of the Actor's remote entity
    serverUp,      \* whether the CARLA server answers this client
    inScope,       \* whether control is inside "with Context(...) as ctx:"
    excInside,     \* the exception raised by the body of the with statement
    \* ---- the connection handle
    timeout,       \* the timeout set on Context._client: "none" (no handle), "default", "probe"
    created,       \* carla.Client objects constructed by the last handler
    ret,           \* what the last test_connection() returned: "True", "False" ("none": not called)
    \* ---- deferred configuration and the remote entity's settings
    setup,         \* Actor._setup, a dict as a sequence of <<method, option>>
    remote,        \* the settings of the remote carla.Actor bound to the Actor
    \* ---- what the last call did (observation of one handler run)
    lastOp,        \* the handler that ran last
    sortedActors,  \* sorted_actors computed by the last spawn_all_actors()
    lastCall,      \* the last configuration call: its Actor, option, and is_alive then
    calls,         \* remote calls issued by the last handler: <<call, actor>>, in order
    err,           \* the exception the last handler raised to its caller
    \* ---- one Sensor, its callback thread and a consumer
    sKind,         \* the Sensor subclass
    sParentAlive,  \* whether self.parent.entity exists (SimpleRadar reads it)
    cbPc,          \* where the running _callback is: "idle", "decode", "store", "set"
    fired,         \* frame of the last callback the server started (0: none yet)
    slot,          \* frame of the sample in Sensor.data (0: None)
    ready,         \* Sensor.on_data_ready.is_set()
    cbAborted,     \* whether the last callback ended by an exception
    maxStored,     \* the highest frame ever stored in Sensor.data
    lastRead,      \* frame of the sample the consumer's last read returned
    prevRead,      \* frame of the sample the read before that returned
    sLast,         \* the last step on the sensor: "init", "callback" or "read"
    \* ---- one Executor, the server's stepping, the clocks
    exKind,        \* "manual" (ManualExecutor) or "passive" (PassiveExecutor)
    exState,       \* "new", "failed" (__enter__ raised), "active", "exited"
    srvSync,       \* the server's WorldSettings.synchronous_mode
    syncAtCall,    \* srvSync when the last __enter__ / __exit__ began
    exLast,        \* the executor call that ended last
    exErr,         \* the exception that call raised
    realTime,      \* time.perf_counter()
    simTime,       \* world.get_snapshot().timestamp.elapsed_seconds
    wPc,           \* the running wait_* call: "idle", "loop", "blocked"
    wKind,         \* "real", "sim" or "ticks"
    wArg,          \* its seconds / ticks argument
    wBegin,        \* its time_begin_wait
    wSpent,        \* its time_spent / count_wait_ticks
    progress,      \* its progress reporting: "none", "running", "stopped"
    nTick,         \* tick() invocations by the last call
    nStep,         \* remote world.tick() calls by the last call
    nWaitTick,     \* remote world.wait_for_tick() calls by the last call
    nApply,        \* remote world.apply_settings() calls by the last call
    \* ---- the ActorFactory
    createArgs,    \* the arguments of the last ActorFactory.create call
    builder,       \* the Builder that call returned (NoBuilder: it raised)
    \* ---- several ManualExecutors (clients) entering against one server
    drvPc,         \* per executor: "new", "read" (the getter returned), "active", "failed"
    drvSeen,       \* per executor: the synchronous_mode its getter returned
    drvErr,        \* per executor: the exception its __enter__ raised
    \* ---- the list the ActorFactory appends to
    refActors,     \* ActorFactory._ref_actor_list
    detached,      \* whether Context._actors is no longer that list object
    \* ---- the attribute dicts
    hasName,       \* per Actor: whether _name is a non-empty string
    builderBag,    \* the dict object that is Builder._attributes of the last Builder
    attrBag,       \* per Actor: the dict object that is its _attributes
    bagContent,    \* per dict object: its content, key -> value
    \* ---- the _progress_logger thread of one PassiveExecutor wait
    repPc,         \* "unstarted", "while", "sleep", "log", "done"
    repLog,        \* when its last status line was emitted: "none", "during", "after"
    \* ---- the stepping interval
    fixedDelta,    \* ManualExecutor._fixed_delta_seconds
    srvDelta       \* the server's WorldSettings.fixed_delta_seconds (0: variable step)

ctxVars == <<parent, actors, entity, client>>
sessVars == <<isSensor, listening, serverUp, inScope, excInside>>
connVars == <<timeout, created, ret>>
cfgVars == <<setup, remote>>
obsVars == <<lastOp, lastCall, sortedActors, calls, err>>
sensVars == <<sKind, sParentAlive, cbPc, fired, slot, ready, cbAborted, maxStored,
              lastRead, prevRead, sLast>>
execVars == <<exKind, exState, srvSync, syncAtCall, exLast, exErr, realTime, simTime,
              wPc, wKind, wArg, wBegin, wSpent, progress, nTick, nStep, nWaitTick, nApply>>
\* What the handlers of one part leave alone.
factVars == <<createArgs, builder>>
drvVars == <<drvPc, drvSeen, drvErr>>
listVars == <<refActors, detached>>
repVars == <<repPc, repLog>>
stepVars == <<fixedDelta, srvDelta>>
attrVars == <<hasName, builderBag, attrBag, bagContent>>
otherVars == <<sensVars, execVars, factVars, drvVars, listVars, repVars, stepVars, attrVars>>
contextVars == <<ctxVars, sessVars, connVars, cfgVars, obsVars, execVars, factVars, drvVars,
                 listVars, repVars, stepVars, attrVars>>
nonExecVars == <<ctxVars, sessVars, connVars, cfgVars, obsVars, sensVars, factVars, drvVars,
                 listVars, repVars, stepVars, attrVars>>
\* What a spawn leaves alone outside the Context and its Actors.
spawnOtherVars == <<sensVars, execVars, factVars, drvVars, listVars, repVars, stepVars, hasName, builderBag, attrBag>>

\* ------------------------------------------------------- sequence helpers
Range(s) == {s[i] : i \in 1..Len(s)}

\* The position of x in s (0 when absent), as list.index.
IndexOf(s, x) == IF x \in Range(s) THEN CHOOSE i \in 1..Len(s) : s[i] = x /\ \A j \in 1..(i-1) : s[j] # x ELSE 0

RECURSIVE Concat(_)
Concat(ss) == IF ss = <<>> THEN <<>> ELSE Head(ss) \o Concat(Tail(ss))

\* --------------------------------------------------------------- Actor
\* Actor.is_alive
IsAlive(ent, a) == ent[a] = "alive"

DefaultRemote == [gravity |-> "unset", physics |-> "unset", autopilot |-> "unset"]

NoCall == [actor |-> NoActor, option |-> "none", alive |-> FALSE]

Options == {"True", "False"}

\* The remote call each configuration method makes on an alive entity.
ApplySetting(r, method, option) ==
    CASE method = "set_gravity"   -> [r EXCEPT !.gravity = option]
      [] method = "set_physics"   -> [r EXCEPT !.physics = option]
      [] method = "set_autopilot" -> [r EXCEPT !.autopilot = option]

\* Actor.spawn, the loop "for setup, option in self._setup.items():
\* getattr(self, setup)(option)": every cached method is called again, now on
\* an alive entity, in the dict's order.
RECURSIVE ReplaySetup(_, _)
ReplaySetup(r, cached) ==
    IF cached = <<>> THEN r
    ELSE ReplaySetup(ApplySetting(r, Head(cached)[1], Head(cached)[2]), Tail(cached))

\* The remote configuration calls of that replay, in order.
ReplayCallsNewestFirst(a, cached) ==
    [k \in 1..Len(cached) |-> <<cached[Len(cached) + 1 - k][1], a, cached[Len(cached) + 1 - k][2]>>]

ReplayCalls(a, cached) == [k \in 1..Len(cached) |-> <<cached[k][1], a, cached[k][2]>>]

\* dict[key] = value: an existing key keeps its place in the order.
DictSet(d, key, value) ==
    IF \E k \in 1..Len(d) : d[k][1] = key
    THEN [k \in 1..Len(d) |-> IF d[k][1] = key THEN <<key, value>> ELSE d[k]]
    ELSE Append(d, <<key, value>>)

\* Actor.spawn, "if self._entity is not None: if self._entity.is_alive".
AlreadyExistsNever(ent, a) == FALSE

AlreadyExists(ent, a) == ent[a] = "alive"

\* Actor.spawn, "if self._parent and not self._parent.is_alive".
ParentMissingNever(ent, a) == FALSE

ParentMissing(ent, a) == parent[a] # NoActor /\ ~IsAlive(ent, parent[a])

\* Actor.destroy, "if self._entity:": a carla.Actor object is truthy, alive or not.
HasEntityAlways(ent, a) == TRUE

HasEntity(ent, a) == ent[a] # "none"

\* Actor.destroy, "self._entity = None" after the remote call.
AfterDestroyKept(e) == e

AfterDestroy(e) == "none"

\* Whether an exception is on its way out of a loop over the Actors.
RaisedNever(st) == FALSE

Raised(st) == st.err # "none"

\* Actor.spawn, "if self._name: self._attributes['role_name'] = self._name":
\* the write goes to the dict object the Actor holds. The name of an Actor
\* is modelled by the Actor itself.
WriteRoleName(bags, a) ==
    IF hasName[a] THEN [bags EXCEPT ![attrBag[a]]["role_name"] = ToString(a)] ELSE bags

\* Actor.spawn on the state st = [entity, remote, bags, log, err]; createFails says
\* that world.spawn_actor raises RuntimeError for this call.
ActorSpawn(st, a, createFails) ==
    IF AlreadyExists(st.entity, a)
    THEN [st EXCEPT !.err = "ContextError"]
    ELSE LET st1 == [st EXCEPT !.bags = WriteRoleName(@, a)]
         IN IF ParentMissing(st1.entity, a)
            THEN [st1 EXCEPT !.err = "ContextError"]
            ELSE IF createFails
            THEN [st1 EXCEPT !.log = Append(@, <<"spawn_actor", a>>), !.err = "CarlaError"]
            ELSE [st1 EXCEPT !.log = Append(@, <<"spawn_actor", a>>) \o ReplayCalls(a, setup[a]),
                             !.entity[a] = "alive",
                             !.remote[a] = ReplaySetup(DefaultRemote, setup[a])]

\* ------------------------------------------------------------- Context
\* spawn_all_actors, the first loop: actors_tree after the first i
\* registered actors. A dict lookup of a missing key is the empty list, as
\* actors_tree.get(node, []) reads it.
RECURSIVE ActorsTree(_)
ActorsTree(i) ==
    IF i = 0 THEN [n \in Actors |-> <<>>]
    ELSE LET tree  == ActorsTree(i - 1)
             actor == actors[i]
         IN IF parent[actor] = NoActor
            THEN [tree EXCEPT ![actor] = <<>>]
            ELSE [tree EXCEPT ![parent[actor]] = Append(@, actor)]

\* spawn_all_actors, dfs(node): the node, then the dfs of each child.
RECURSIVE Dfs(_, _)
Dfs(tree, node) ==
    <<node>> \o Concat([k \in 1..Len(tree[node]) |-> Dfs(tree, tree[node][k])])

\* spawn_all_actors, sorted_actors: the dfs of every root in registration order.
Roots == SelectSeq(actors, LAMBDA a : parent[a] = NoActor)

SortedActors ==
    LET tree == ActorsTree(Len(actors))
    IN Concat([k \in 1..Len(Roots) |-> Dfs(tree, Roots[k])])

\* spawn_all_actors, the loop "for actor in sorted_actors: actor.spawn(self.world)":
\* it stops at the first exception. failAt is the position of the spawn whose
\* remote create call fails (0: none does). self.world reads self.client.get_world(),
\* which raises AttributeError on a None client and RuntimeError when the
\* server does not answer.
RECURSIVE SpawnLoop(_, _, _, _)
SpawnLoop(order, i, st, failAt) ==
    IF i > Len(order) \/ Raised(st) THEN st
    ELSE IF client = "none" THEN [st EXCEPT !.err = "AttributeError"]
    ELSE IF ~serverUp THEN [st EXCEPT !.err = "RuntimeError"]
    ELSE SpawnLoop(order, i + 1, ActorSpawn(st, order[i], i = failAt), failAt)

\* "self._ref_actor_list.append(actor)" of ActorFactory.Builder.build.
ListPrepend(list, a) == <<a>> \o list

ListAppend(list, a) == Append(list, a)

\* ActorFactory.Builder.build: the Actor is constructed (Actor.__init__ sets
\* _entity = None) and joins the factory's list, which is the Context's list
\* as long as Context._actors is the object given to ActorFactory(self.actors);
\* no remote call is made.
Register(a) ==
    /\ a \notin Range(actors)
    /\ a \notin Range(refActors)
    /\ refActors' = ListAppend(refActors, a)
    /\ actors' = IF detached THEN actors ELSE ListAppend(actors, a)
    /\ entity' = [entity EXCEPT ![a] = "none"]
    /\ lastOp' = "register"
    /\ lastCall' = NoCall
    /\ sortedActors' = <<>>
    /\ calls' = <<>>
    /\ err' = "none"
    /\ attrBag' = [attrBag EXCEPT ![a] = builderBag]
    /\ UNCHANGED <<parent, client, cfgVars, sessVars, connVars, sensVars, execVars, factVars,
                   drvVars, repVars, stepVars, detached, hasName, builderBag, bagContent>>

SpawnAllActors(failAt) ==
    LET order == SortedActors
        st    == SpawnLoop(order, 1, [entity |-> entity, remote |-> remote, bags |-> bagContent,
                                      log |-> <<>>, err |-> "none"], failAt)
    IN /\ failAt \in 0..Len(order)
       /\ entity' = st.entity
       /\ remote' = st.remote
       /\ lastOp' = "spawn_all"
       /\ lastCall' = NoCall
       /\ sortedActors' = order
       /\ calls' = st.log
       /\ err' = st.err
       /\ bagContent' = st.bags
       /\ UNCHANGED <<parent, actors, client, setup, sessVars, connVars, spawnOtherVars>>

\* Context.test_connection: False without a client, else whether
\* get_server_version() answers within the probe timeout.
TestConnectionFalse(c) == FALSE

TestConnection(c) == c # "none" /\ serverUp

\* The timeouts a handle carries: self._timeout_sec, given to the
\* constructor, and test_timeout_sec, the argument of test_connection.
DefaultTimeout == "default"

ProbeTimeout == "probe"

\* test_connection, "except RuntimeError: return False": what leaves the try
\* statement when the health check raised the exception raised.
ProbeExcept(raised) == IF raised = "RuntimeError" THEN "none" ELSE raised

\* test_connection, "finally: self.client.set_timeout(self._timeout_sec)".
TimeoutLeftAsSet(t) == t

TimeoutInFinally(t) == DefaultTimeout

\* Context.test_connection on the handle c whose timeout is t, as
\* [ret, timeout, err]: without a handle it returns False at once; else the
\* probe timeout is set, get_server_version() answers or raises RuntimeError,
\* and the finally clause sets the timeout again.
TestConnectionRun(c, t) ==
    IF c = "none"
    THEN [ret |-> FALSE, timeout |-> t, err |-> "none"]
    ELSE LET raised == IF serverUp THEN "none" ELSE "RuntimeError"
         IN [ret |-> TestConnection(c),
             timeout |-> TimeoutInFinally(ProbeTimeout),
             err |-> ProbeExcept(raised)]

\* Context.connect as [client, err, created, timeout]: an existing client that
\* answers is kept; otherwise a new carla.Client is stored, given the default
\* timeout and then probed, once.
Connect ==
    IF client # "none" /\ TestConnection(client)
    THEN [client |-> client, err |-> "none", created |-> 0,
          timeout |-> TestConnectionRun(client, timeout).timeout]
    ELSE IF TestConnection("client")
    THEN [client |-> "client", err |-> "none", created |-> 1,
          timeout |-> TestConnectionRun("client", DefaultTimeout).timeout]
    ELSE [client |-> "client", err |-> "RuntimeError", created |-> 1,
          timeout |-> TestConnectionRun("client", DefaultTimeout).timeout]

\* Context.stop_all_sensors from position i on; Sensor.stop calls
\* entity.stop() when the entity exists and is listening. failAt is the
\* position whose remote call raises RuntimeError (0: none).
RECURSIVE StopAllSensors(_, _, _)
StopAllSensors(i, st, failAt) ==
    IF i > Len(actors) \/ st.err # "none" THEN st
    ELSE LET a == actors[i]
         IN IF isSensor[a] /\ st.entity[a] # "none" /\ st.listening[a]
            THEN IF i = failAt
                 THEN [st EXCEPT !.log = Append(@, <<"stop", a>>), !.err = "RuntimeError"]
                 ELSE StopAllSensors(i + 1,
                          [st EXCEPT !.log = Append(@, <<"stop", a>>), !.listening[a] = FALSE],
                          failAt)
            ELSE StopAllSensors(i + 1, st, failAt)

\* Context.destroy_all_actors from position i on; Actor.destroy calls
\* entity.destroy() and then clears _entity when _entity is set.
RECURSIVE DestroyAllActors(_, _, _)
DestroyAllActors(i, st, failAt) ==
    IF i > Len(actors) \/ st.err # "none" THEN st
    ELSE LET a == actors[i]
         IN IF HasEntity(st.entity, a)
            THEN IF i = failAt
                 THEN [st EXCEPT !.log = Append(@, <<"destroy", a>>), !.err = "RuntimeError"]
                 ELSE DestroyAllActors(i + 1,
                          [st EXCEPT !.log = Append(@, <<"destroy", a>>),
                                     !.entity[a] = AfterDestroy(@), !.listening[a] = FALSE],
                          failAt)
            ELSE DestroyAllActors(i + 1, st, failAt)

\* A disconnect whose two loops run in the other order.
DisconnectDestroysFirst(stopFailAt, destroyFailAt) ==
    LET s0 == [entity |-> entity, listening |-> listening, log |-> <<>>, err |-> "none"]
        s1 == DestroyAllActors(1, s0, destroyFailAt)
        s2 == StopAllSensors(1, s1, stopFailAt)
    IN [entity |-> s2.entity, listening |-> s2.listening, log |-> s2.log, err |-> s2.err,
        client |-> IF s2.err = "none" THEN "none" ELSE client]

\* Context.disconnect as [entity, listening, log, err, client]: the client is
\* cleared by the statement after the two loops, which an exception skips.
Disconnect(stopFailAt, destroyFailAt) ==
    LET s0 == [entity |-> entity, listening |-> listening, log |-> <<>>, err |-> "none"]
        s1 == StopAllSensors(1, s0, stopFailAt)
        s2 == DestroyAllActors(1, s1, destroyFailAt)
    IN [entity |-> s2.entity, listening |-> s2.listening, log |-> s2.log, err |-> s2.err,
        client |-> IF s2.err = "none" THEN "none" ELSE client]

\* Context.__enter__, "except RuntimeError as e: raise ContextError(...) from e".
EnterExceptPassesOn(e) == e

EnterExcept(e) == IF e = "RuntimeError" THEN "ContextError" ELSE e

\* Context.__enter__: connect(), a RuntimeError becomes a ContextError and
\* the body of the with statement is not entered.
ContextEnter ==
    /\ ~inScope
    /\ client' = Connect.client
    /\ inScope' = (EnterExcept(Connect.err) = "none")
    /\ excInside' = "none"
    /\ lastOp' = "enter"
    /\ lastCall' = NoCall
    /\ err' = EnterExcept(Connect.err)
    /\ sortedActors' = <<>>
    /\ calls' = <<>>
    /\ timeout' = Connect.timeout
    /\ created' = Connect.created
    /\ ret' = "none"
    /\ UNCHANGED <<parent, actors, entity, isSensor, listening, serverUp, cfgVars, otherVars>>

\* Context.__exit__(exc_type, ...): test_connection(), disconnect(), a log
\* line, return None. exc is the exception the body raised ("none": the body
\* ended normally). Returning None does not suppress exc; an exception raised
\* by disconnect() leaves __exit__ in its place.
ContextExit(exc, stopFailAt, destroyFailAt) ==
    LET d == Disconnect(stopFailAt, destroyFailAt)
    IN /\ inScope
       /\ inScope' = FALSE
       /\ excInside' = exc
       /\ entity' = d.entity
       /\ listening' = d.listening
       /\ client' = d.client
       /\ lastOp' = "exit"
       /\ lastCall' = NoCall
       /\ err' = IF d.err # "none" THEN d.err ELSE exc
       /\ sortedActors' = <<>>
       /\ calls' = d.log
       /\ timeout' = IF d.client = "none" THEN "none"
                     ELSE TestConnectionRun(client, timeout).timeout
       /\ created' = 0
       /\ ret' = "none"
       /\ UNCHANGED <<parent, actors, isSensor, serverUp, cfgVars, otherVars>>

\* Context.listen_all_sensors; Sensor.listen calls self.entity.listen, which
\* is an AttributeError on a None entity.
RECURSIVE ListenLoop(_, _)
ListenLoop(i, st) ==
    IF i > Len(actors) \/ st.err # "none" THEN st
    ELSE LET a == actors[i]
         IN IF ~isSensor[a] THEN ListenLoop(i + 1, st)
            ELSE IF entity[a] = "none" THEN [st EXCEPT !.err = "AttributeError"]
            ELSE IF entity[a] = "dead"
            THEN [st EXCEPT !.log = Append(@, <<"listen", a>>), !.err = "RuntimeError"]
            ELSE ListenLoop(i + 1, [st EXCEPT !.log = Append(@, <<"listen", a>>),
                                              !.listening[a] = TRUE])

ListenAllSensors ==
    LET st == ListenLoop(1, [listening |-> listening, log |-> <<>>, err |-> "none"])
    IN /\ listening' = st.listening
       /\ lastOp' = "listen_all"
       /\ lastCall' = NoCall
       /\ err' = st.err
       /\ sortedActors' = <<>>
       /\ calls' = st.log
       /\ UNCHANGED <<ctxVars, isSensor, serverUp, inScope, excInside, cfgVars, connVars, otherVars>>

\* One configuration method called by the user. An alive entity gets the
\* remote call; otherwise the method runs its else branch, whose effect on
\* _setup and whose exception are given by cached and raised.
ConfigCall(a, method, option, cached, raised) ==
    /\ lastOp' = method
    /\ lastCall' = [actor |-> a, option |-> option, alive |-> IsAlive(entity, a)]
    /\ sortedActors' = <<>>
    /\ IF IsAlive(entity, a)
       THEN /\ remote' = [remote EXCEPT ![a] = ApplySetting(@, method, option)]
            /\ calls' = <<<<method, a, option>>>>
            /\ err' = "none"
            /\ UNCHANGED setup
       ELSE /\ setup' = [setup EXCEPT ![a] = cached]
            /\ calls' = <<>>
            /\ err' = raised
            /\ UNCHANGED remote
    /\ UNCHANGED <<ctxVars, sessVars, connVars, otherVars>>

\* Actor.set_gravity: the else branch is the expression statement
\* self._setup['set_gravity', option], a lookup of the key
\* ('set_gravity', option), which no _setup holds: it raises KeyError and
\* stores nothing.
SetGravity(a, option) ==
    ConfigCall(a, "set_gravity", option, setup[a], "KeyError")

\* Actor.set_physics: the else branch is self._setup['set_physics'] = option.
SetPhysics(a, option) ==
    ConfigCall(a, "set_physics", option, DictSet(setup[a], "set_physics", option), "none")

\* Vehicle.set_autopilot: the else branch is self._setup['set_autopilot'] = option.
SetAutopilot(a, option) ==
    /\ ~isSensor[a]
    /\ ConfigCall(a, "set_autopilot", option, DictSet(setup[a], "set_autopilot", option), "none")

\* actor.spawn(world) called for one Actor.
SpawnActor(a, createFails) ==
    LET st == ActorSpawn([entity |-> entity, remote |-> remote, bags |-> bagContent,
                          log |-> <<>>, err |-> "none"], a, createFails)
    IN /\ entity' = st.entity
       /\ remote' = st.remote
       /\ lastOp' = "spawn"
       /\ lastCall' = [NoCall EXCEPT !.actor = a]
       /\ sortedActors' = <<>>
       /\ calls' = st.log
       /\ err' = st.err
       /\ bagContent' = st.bags
       /\ UNCHANGED <<parent, actors, client, setup, sessVars, connVars, spawnOtherVars>>

\* actor.destroy() called for one Actor.
DestroyActor(a, destroyFails) ==
    /\ lastOp' = "destroy"
    /\ lastCall' = [NoCall EXCEPT !.actor = a]
    /\ sortedActors' = <<>>
    /\ IF ~HasEntity(entity, a)
       THEN /\ calls' = <<>>
            /\ err' = "none"
            /\ UNCHANGED <<entity, listening>>
       ELSE /\ calls' = <<<<"destroy", a>>>>
            /\ IF destroyFails
               THEN /\ err' = "RuntimeError"
                    /\ UNCHANGED <<entity, listening>>
               ELSE /\ err' = "none"
                    /\ entity' = [entity EXCEPT ![a] = AfterDestroy(@)]
                    /\ listening' = [listening EXCEPT ![a] = FALSE]
    /\ UNCHANGED <<parent, actors, client, isSensor, serverUp, inScope, excInside, cfgVars, connVars, otherVars>>

\* The server stops or resumes answering (a crash, the network).
ServerToggle ==
    /\ serverUp' = ~serverUp
    /\ UNCHANGED <<ctxVars, isSensor, listening, inScope, excInside, cfgVars, obsVars, connVars, otherVars>>

vars == <<ctxVars, sessVars, connVars, cfgVars, obsVars, sensVars, execVars, factVars, drvVars,
          listVars, repVars, stepVars, attrVars>>

\* ------------------------------------------------------- ActorFactory
\* The classes create() is asked for, and the kinds of object passed as
\* from_blueprint and from_template ("none": the argument is left out,
\* "other": an object of none of the types create() tests for).
ActorClasses == {"RgbCamera", "SimpleLidar", "SemanticLidar", "SimpleRadar",
                 "DepthCamera", "SemanticCamera", "Actor", "Vehicle"}

BlueprintArgs == {"none", "str", "ActorBlueprint", "Enum", "other"}

TemplateArgs == {"none", "ActorTemplate", "Enum", "other"}

ACTOR_CLASS_TO_BLUEPRINT ==
    [cls \in {"RgbCamera", "SimpleLidar", "SemanticLidar", "SimpleRadar",
              "DepthCamera", "SemanticCamera"} |->
        CASE cls = "RgbCamera"      -> "sensor.camera.rgb"
          [] cls = "SimpleLidar"    -> "sensor.lidar.ray_cast"
          [] cls = "SemanticLidar"  -> "sensor.lidar.ray_cast_semantic"
          [] cls = "SimpleRadar"    -> "sensor.other.radar"
          [] cls = "DepthCamera"    -> "sensor.camera.depth"
          [] cls = "SemanticCamera" -> "sensor.camera.semantic_segmentation"]

NoCreate == [actor_class |-> "none", from_blueprint |-> "none", from_template |-> "none"]

NoBuilder == [actor_class |-> "none", blueprint_name |-> "none"]

\* "if from_blueprint is not None and from_template is not None" of create.
BothGivenNever(from_blueprint, from_template) == FALSE

BothGiven(from_blueprint, from_template) ==
    from_blueprint # "none" /\ from_template # "none"

\* blueprint_name as create() determines it: the class's default when both
\* arguments are left out, the argument's own name when its type is one of
\* those tested for, None otherwise.
BlueprintName(actor_class, from_blueprint, from_template) ==
    LET default == IF from_blueprint = "none" /\ from_template = "none"
                      /\ actor_class \in DOMAIN ACTOR_CLASS_TO_BLUEPRINT
                   THEN ACTOR_CLASS_TO_BLUEPRINT[actor_class]
                   ELSE "none"
    IN IF from_blueprint # "none"
       THEN IF from_blueprint \in {"Enum", "ActorBlueprint", "str"}
            THEN "given"
            ELSE default
       ELSE IF from_template # "none"
            THEN IF from_template \in {"ActorTemplate", "Enum"}
                 THEN "given"
                 ELSE default
            ELSE default

\* ActorFactory.create: the exception it raises and the Builder it returns.
Create(actor_class, from_blueprint, from_template) ==
    IF BothGiven(from_blueprint, from_template)
    THEN [err |-> "ValueError", builder |-> NoBuilder]
    ELSE IF BlueprintName(actor_class, from_blueprint, from_template) = "none"
         THEN [err |-> "ValueError", builder |-> NoBuilder]
         ELSE [err |-> "none",
               builder |-> [actor_class |-> actor_class,
                            blueprint_name |->
                                BlueprintName(actor_class, from_blueprint, from_template)]]

\* The dict objects in use, and one that is not: what "attributes = {}" makes.
BagsInUse == {DefaultBag, TemplateBag, builderBag} \cup {attrBag[a] : a \in Actors}

FreshBag == CHOOSE b \in Bags \ BagsInUse : \A c \in Bags \ BagsInUse : b <= c

\* The dict create() hands to the Builder: from_template.attributes of an
\* ActorTemplate (of the Enum member's ActorTemplate), the object itself, or
\* the dict made by "attributes = {}". A create() that raises hands over none.
CreateBag(from_blueprint, from_template, raised) ==
    IF raised # "none" THEN builderBag
    ELSE IF from_blueprint = "none" /\ from_template \in {"ActorTemplate", "Enum"}
    THEN TemplateBag
    ELSE FreshBag

\* factory.create(actor_class, from_blueprint=..., from_template=...) called.
FactoryCreate(actor_class, from_blueprint, from_template) ==
    /\ Bags \ BagsInUse # {}
    /\ createArgs' = [actor_class |-> actor_class, from_blueprint |-> from_blueprint,
                      from_template |-> from_template]
    /\ builder' = Create(actor_class, from_blueprint, from_template).builder
    /\ err' = Create(actor_class, from_blueprint, from_template).err
    /\ lastOp' = "create"
    /\ lastCall' = NoCall
    /\ sortedActors' = <<>>
    /\ calls' = <<>>
    /\ builderBag' = CreateBag(from_blueprint, from_template,
                               Create(actor_class, from_blueprint, from_template).err)
    /\ UNCHANGED <<ctxVars, sessVars, connVars, cfgVars, sensVars, execVars, drvVars, listVars, repVars, stepVars,
                   hasName, attrBag, bagContent>>

\* No create() call made yet, the factory's list is the Context's list and
\* is empty, every dict is empty, and no further executor is entering.
FactoryIdle ==
    /\ createArgs = NoCreate
    /\ builder = NoBuilder
    /\ drvPc = [c \in Drivers |-> "new"]
    /\ drvSeen = [c \in Drivers |-> FALSE]
    /\ drvErr = [c \in Drivers |-> "none"]
    /\ refActors = <<>>
    /\ detached = FALSE
    /\ builderBag = DefaultBag
    /\ attrBag = [a \in Actors |-> DefaultBag]
    /\ bagContent = [b \in Bags |-> EmptyDict]
    /\ repPc = "unstarted"
    /\ repLog = "none"
    /\ fixedDelta = DefaultDelta
    /\ srvDelta = 0

\* The same, with Actors that are given no name.
FactoryQuiet ==
    /\ FactoryIdle
    /\ hasName = [a \in Actors |-> FALSE]

\* The Context and its Actors untouched, for the scenarios that do not use them.
ContextQuiet(c) ==
    /\ parent = [a \in Actors |-> NoActor]
    /\ isSensor = [a \in Actors |-> FALSE]
    /\ actors = <<>>
    /\ entity = [a \in Actors |-> "none"]
    /\ client = c
    /\ timeout = IF c = "none" THEN "none" ELSE DefaultTimeout
    /\ created = 0
    /\ ret = "none"
    /\ listening = [a \in Actors |-> FALSE]
    /\ serverUp = TRUE
    /\ inScope = FALSE
    /\ excInside = "none"
    /\ setup = [a \in Actors |-> <<>>]
    /\ remote = [a \in Actors |-> DefaultRemote]
    /\ lastOp = "init"
    /\ lastCall = NoCall
    /\ sortedActors = <<>>
    /\ calls = <<>>
    /\ err = "none"

\* A Sensor as Sensor.__init__ leaves it: data is None, the Event is not set.
SensorQuiet ==
    /\ sKind = "RgbCamera"
    /\ sParentAlive = TRUE
    /\ cbPc = "idle"
    /\ fired = 0
    /\ slot = 0
    /\ ready = FALSE
    /\ cbAborted = FALSE
    /\ maxStored = 0
    /\ lastRead = 0
    /\ prevRead = 0
    /\ sLast = "init"

\* An Executor just constructed, no wait running.
ExecQuiet ==
    /\ exKind = "passive"
    /\ exState = "new"
    /\ srvSync = FALSE
    /\ syncAtCall = FALSE
    /\ exLast = "init"
    /\ exErr = "none"
    /\ realTime = 0
    /\ simTime = 0
    /\ wPc = "idle"
    /\ wKind = "ticks"
    /\ wArg = 0
    /\ wBegin = 0
    /\ wSpent = 0
    /\ progress = "none"
    /\ nTick = 0
    /\ nStep = 0
    /\ nWaitTick = 0
    /\ nApply = 0

\* --------------------------------------------- the registry and the spawn
\* Every parent assignment without a self-parent, cycles included, and every
\* registration order: Actor objects are constructed first and joined to the
\* list one by one.
InitSpawn ==
    /\ FactoryQuiet
    /\ SensorQuiet
    /\ ExecQuiet
    /\ parent \in {p \in [Actors -> Actors \cup {NoActor}] : \A a \in Actors : p[a] # a}
    /\ actors = <<>>
    /\ entity = [a \in Actors |-> "none"]
    /\ client = "client"
    /\ timeout = DefaultTimeout
    /\ created = 0
    /\ ret = "none"
    /\ isSensor = [a \in Actors |-> FALSE]
    /\ listening = [a \in Actors |-> FALSE]
    /\ serverUp = TRUE
    /\ inScope = FALSE
    /\ excInside = "none"
    /\ setup = [a \in Actors |-> <<>>]
    /\ remote = [a \in Actors |-> DefaultRemote]
    /\ lastOp = "init"
    /\ lastCall = NoCall
    /\ sortedActors = <<>>
    /\ calls = <<>>
    /\ err = "none"

NextSpawn ==
    \/ \E a \in Actors : Register(a)
    \/ \E failAt \in 0..NumActors : SpawnAllActors(failAt)

SpecSpawn == InitSpawn /\ [][NextSpawn]_vars

\* Whether following _parent from a leads back to a through registered Actors.
RECURSIVE ReachesUp(_, _, _)
ReachesUp(a, b, n) ==
    /\ n > 0
    /\ a # NoActor
    /\ a \in Range(actors)
    /\ (a = b \/ ReachesUp(parent[a], b, n - 1))

HasCycle == \E a \in Range(actors) : ReachesUp(parent[a], a, NumActors)

ParentsRegistered == \A a \in Range(actors) : parent[a] = NoActor \/ parent[a] \in Range(actors)

\* C1: for every acyclic set of registrations, in any registration order, the
\* order in which spawn_all_actors() spawns places every registered entity
\* after its parent and keeps the children of one parent (and the roots) in
\* their registration order.
C1_SpawnOrderCoversEveryEntity ==
    (lastOp = "spawn_all" /\ ~HasCycle /\ ParentsRegistered) =>
        /\ \A a \in Range(actors) :
              /\ a \in Range(sortedActors)
              /\ parent[a] # NoActor =>
                    /\ parent[a] \in Range(sortedActors)
                    /\ IndexOf(sortedActors, parent[a]) < IndexOf(sortedActors, a)
        /\ \A a, b \in Range(actors) :
              (parent[a] = parent[b] /\ IndexOf(actors, a) < IndexOf(actors, b))
                  => IndexOf(sortedActors, a) < IndexOf(sortedActors, b)

\* C2: when the registered entities contain a parent cycle, spawn_all_actors()
\* fails with an error and has issued no remote create call.
C2_CycleRejected ==
    (lastOp = "spawn_all" /\ HasCycle) =>
        /\ err # "none"
        /\ \A i \in 1..Len(calls) : calls[i][1] # "spawn_actor"

\* ------------------------------------------------------------ the session
\* A session that builds its Actors through the factory: an Actor is
\* registered when it is built, so after the Actor that is its parent.
InitSession ==
    /\ FactoryQuiet
    /\ SensorQuiet
    /\ ExecQuiet
    /\ parent \in {p \in [Actors -> Actors \cup {NoActor}] :
                      \A a \in Actors : IF a \in SessionActors THEN p[a] < a ELSE p[a] = NoActor}
    /\ isSensor \in {f \in [Actors -> BOOLEAN] : \A a \in Actors \ SessionActors : ~f[a]}
    /\ actors = <<>>
    /\ entity = [a \in Actors |-> "none"]
    /\ client = "none"
    /\ timeout = "none"
    /\ created = 0
    /\ ret = "none"
    /\ listening = [a \in Actors |-> FALSE]
    /\ serverUp = TRUE
    /\ inScope = FALSE
    /\ excInside = "none"
    /\ setup = [a \in Actors |-> <<>>]
    /\ remote = [a \in Actors |-> DefaultRemote]
    /\ lastOp = "init"
    /\ lastCall = NoCall
    /\ sortedActors = <<>>
    /\ calls = <<>>
    /\ err = "none"

NextSession ==
    \/ ContextEnter
    \/ \E a \in SessionActors : a = Len(actors) + 1 /\ Register(a)
    \/ \E failAt \in 0..NumSessionActors : SpawnAllActors(failAt)
    \/ ListenAllSensors
    \/ \E exc \in {"none", "UserError"}, stopFailAt, destroyFailAt \in 0..NumSessionActors :
          ContextExit(exc, stopFailAt, destroyFailAt)
    \/ ServerToggle

SpecSession == InitSession /\ [][NextSession]_vars

\* C3: after the session scope is exited, normally or by an exception and
\* whatever remote call failed during teardown, no registered entity is
\* still spawned and the connection handle is cleared.
C3_ExitLeavesNothingSpawned ==
    lastOp = "exit" =>
        /\ \A a \in Range(actors) : entity[a] = "none"
        /\ client = "none"

\* C4: when the body of the session scope raised an exception, the exception
\* the caller sees after the exit is that one, not one raised by teardown.
C4_OriginalExceptionSeen ==
    (lastOp = "exit" /\ excInside # "none") => err = excInside

\* ------------------------------------------------------- the sensor slot
\* The classes of src/actors/sensors, and the RgbCamera of src/actors/rgb_camera.py.
SensorKinds == {"RgbCamera", "DepthCamera", "SemanticCamera", "SimpleLidar",
                "SemanticLidar", "SimpleRadar", "LegacyRgbCamera"}

\* Whether _callback begins with self.on_data_ready.clear().
ClearsFirst(kind) == kind # "LegacyRgbCamera"

\* Whether the decoding raises: SimpleRadar reads self.parent.entity.get_velocity().
DecodeRaises(kind) == kind = "SimpleRadar" /\ ~sParentAlive

\* self.data = SensorData(..., frame, ...): the slot holds the new sample.
SlotAfterStoreKeepsUnread(old, new) == IF old = 0 THEN new ELSE old

SlotAfterStore(old, new) == new

\* The server invokes _callback with the next frame; callbacks of one sensor
\* run one after the other. The first statement clears the Event.
CallbackStart ==
    /\ cbPc = "idle"
    /\ fired < MaxFrames
    /\ fired' = fired + 1
    /\ ready' = IF ClearsFirst(sKind) THEN FALSE ELSE ready
    /\ cbPc' = "decode"
    /\ cbAborted' = FALSE
    /\ sLast' = "callback"
    /\ UNCHANGED <<sKind, sParentAlive, slot, maxStored, lastRead, prevRead, contextVars>>

\* The raw data is turned into an array.
CallbackDecode ==
    /\ cbPc = "decode"
    /\ cbPc' = IF DecodeRaises(sKind) THEN "idle" ELSE "store"
    /\ cbAborted' = DecodeRaises(sKind)
    /\ sLast' = "callback"
    /\ UNCHANGED <<sKind, sParentAlive, fired, slot, ready, maxStored, lastRead, prevRead, contextVars>>

\* self.data = ...
CallbackStore ==
    /\ cbPc = "store"
    /\ slot' = SlotAfterStore(slot, fired)
    /\ maxStored' = IF fired > maxStored THEN fired ELSE maxStored
    /\ cbPc' = "set"
    /\ sLast' = "callback"
    /\ UNCHANGED <<sKind, sParentAlive, fired, ready, cbAborted, lastRead, prevRead, contextVars>>

\* self.on_data_ready.set()
CallbackSet ==
    /\ cbPc = "set"
    /\ ready' = TRUE
    /\ cbPc' = "idle"
    /\ sLast' = "callback"
    /\ UNCHANGED <<sKind, sParentAlive, fired, slot, cbAborted, maxStored, lastRead, prevRead, contextVars>>

\* A consumer thread reads sensor.data, at any moment.
ConsumerRead ==
    /\ prevRead' = lastRead
    /\ lastRead' = slot
    /\ sLast' = "read"
    /\ UNCHANGED <<sKind, sParentAlive, cbPc, fired, slot, ready, cbAborted, maxStored, contextVars>>

InitSensor ==
    /\ FactoryQuiet
    /\ ContextQuiet("client")
    /\ ExecQuiet
    /\ sKind \in SensorKinds
    /\ sParentAlive \in (IF sKind = "SimpleRadar" THEN BOOLEAN ELSE {TRUE})
    /\ cbPc = "idle"
    /\ fired = 0
    /\ slot = 0
    /\ ready = FALSE
    /\ cbAborted = FALSE
    /\ maxStored = 0
    /\ lastRead = 0
    /\ prevRead = 0
    /\ sLast = "init"

NextSensor ==
    \/ CallbackStart
    \/ CallbackDecode
    \/ CallbackStore
    \/ CallbackSet
    \/ ConsumerRead

SpecSensor == InitSensor /\ [][NextSensor]_vars

\* C8: for one sensor, under every interleaving of its callbacks (in
\* increasing frame order) and the reads of a consumer, the frames the
\* consumer observes never decrease, a read returns the latest sample stored
\* so far, and a read after all callbacks have completed returns the sample
\* of the last callback fired.
C8_ReadsNeverGoBack ==
    /\ prevRead <= lastRead
    /\ lastRead <= maxStored
    /\ sLast = "read" => lastRead = maxStored
    /\ (sLast = "read" /\ cbPc = "idle" /\ ~cbAborted) => lastRead = fired

\* C8 witness: MaxFrames callbacks have completed before the consumer's
\* read, whose previous read saw no sample, and it returns the last frame.
C8_Witness ==
    /\ sLast = "read"
    /\ cbPc = "idle"
    /\ fired = MaxFrames
    /\ prevRead = 0
    /\ lastRead = MaxFrames

\* C9: in every sensor kind, whenever the readiness signal is set the slot
\* holds the complete sample of the most recently started callback: not
\* empty, and not the sample of an older callback.
C9_ReadyMeansLatestSample ==
    ready => (slot # 0 /\ slot = fired)

\* ---------------------------------------------------------- the executors
\* Executor.is_synchronous_mode is a property: reading the attribute runs the
\* getter, which returns settings.synchronous_mode, a bool.
IsSynchronousMode == srvSync

\* The expression self.is_synchronous_mode() of both __enter__ methods reads
\* that property and then calls the value it got. The value is a bool, and
\* calling a bool raises TypeError ('bool' object is not callable) whatever
\* the bool is: the call yields no value.
CallPropertyValueReturns(value) == [raised |-> "none", value |-> value]

CallPropertyValue(value) == [raised |-> "TypeError", value |-> value]

\* ManualExecutor.set_synchronous_mode(option): the settings are read,
\* changed and applied, and one world.tick() forces them.
SetSynchronousMode(option) == [srvSync |-> option, nApply |-> 1, nStep |-> 1]

\* ManualExecutor.__enter__
ManualEnter ==
    /\ exKind = "manual"
    /\ exState \in {"new", "failed"}
    /\ wPc = "idle"
    /\ syncAtCall' = srvSync
    /\ exLast' = "enter"
    /\ nTick' = 0
    /\ nWaitTick' = 0
    /\ LET check == CallPropertyValue(IsSynchronousMode)
       IN IF check.raised # "none"
          THEN /\ exErr' = check.raised
               /\ exState' = "failed"
               /\ nApply' = 0
               /\ nStep' = 0
               /\ UNCHANGED srvSync
          ELSE IF check.value
          THEN /\ exErr' = "ExecutorError"
               /\ exState' = "failed"
               /\ nApply' = 0
               /\ nStep' = 0
               /\ UNCHANGED srvSync
          ELSE /\ exErr' = "none"
               /\ exState' = "active"
               /\ srvSync' = SetSynchronousMode(TRUE).srvSync
               /\ nApply' = SetSynchronousMode(TRUE).nApply
               /\ nStep' = SetSynchronousMode(TRUE).nStep
    /\ UNCHANGED <<exKind, realTime, simTime, wPc, wKind, wArg, wBegin, wSpent, progress>>
    /\ UNCHANGED nonExecVars

\* ManualExecutor.__exit__: the with statement runs it only for a scope whose
\* __enter__ returned.
ManualExit ==
    /\ exKind = "manual"
    /\ exState = "active"
    /\ wPc = "idle"
    /\ syncAtCall' = srvSync
    /\ exLast' = "exit"
    /\ exErr' = "none"
    /\ exState' = "exited"
    /\ srvSync' = SetSynchronousMode(FALSE).srvSync
    /\ nApply' = SetSynchronousMode(FALSE).nApply
    /\ nStep' = SetSynchronousMode(FALSE).nStep
    /\ nTick' = 0
    /\ nWaitTick' = 0
    /\ UNCHANGED <<exKind, realTime, simTime, wPc, wKind, wArg, wBegin, wSpent, progress>>
    /\ UNCHANGED nonExecVars

\* PassiveExecutor.__enter__: the same call of the property's value, before
\* the warning and the return.
PassiveEnter ==
    /\ exKind = "passive"
    /\ exState \in {"new", "failed"}
    /\ wPc = "idle"
    /\ syncAtCall' = srvSync
    /\ exLast' = "enter"
    /\ LET check == CallPropertyValue(IsSynchronousMode)
       IN IF check.raised # "none"
          THEN /\ exErr' = check.raised
               /\ exState' = "failed"
          ELSE /\ exErr' = "none"
               /\ exState' = "active"
    /\ nTick' = 0
    /\ nStep' = 0
    /\ nWaitTick' = 0
    /\ nApply' = 0
    /\ UNCHANGED <<exKind, srvSync, realTime, simTime, wPc, wKind, wArg, wBegin, wSpent, progress>>
    /\ UNCHANGED nonExecVars

\* ManualExecutor.tick as a step inside a call: the pacing sleep and the
\* remote world.tick(). dt is the real time the whole tick() takes, d the
\* simulated time the server advances by; stepFails says that world.tick()
\* raises RuntimeError.
ManualTickStep(d, dt, stepFails) ==
    /\ realTime + dt <= MaxTime
    /\ simTime + d <= MaxTime
    /\ realTime' = realTime + dt
    /\ simTime' = IF stepFails THEN simTime ELSE simTime + d
    /\ nTick' = nTick + 1
    /\ nStep' = nStep + 1

\* The loop conditions "while time_spent < seconds" and
\* "while count_wait_ticks < ticks" of ManualExecutor.
LoopContinuesInclusive(spent, arg) == spent <= arg

LoopContinues(spent, arg) == spent < arg

\* "for _ in range(ticks)" of PassiveExecutor.wait_ticks.
RangeHasNextInclusive(count, ticks) == count <= ticks

RangeHasNext(count, ticks) == count < ticks

\* The measurement of ManualExecutor.wait_sim_seconds after each tick(): the
\* snapshot's elapsed_seconds minus the value read when the call started.
SimSpentFixedStep(now, begin, spent) == spent + MaxStep

SimSpent(now, begin, spent) == now - begin

\* "while elapsed_seconds - time_begin_wait < seconds" of
\* PassiveExecutor.wait_sim_seconds.
PassiveSimContinues(now, begin, seconds) == now - begin < seconds

\* ProgressLogger(...).start() and .stop()
ProgressStarted == "running"

ProgressStopped == "stopped"

\* wait_real_seconds / wait_sim_seconds / wait_ticks up to their loop: the
\* begin time is read and the progress reporting starts (a ProgressLogger in
\* ManualExecutor; flag_show_log = True and the logging thread in
\* PassiveExecutor).
WaitStart(kind, arg) ==
    /\ wPc = "idle"
    /\ wPc' = "loop"
    /\ wKind' = kind
    /\ wArg' = arg
    /\ wBegin' = CASE kind = "real"  -> realTime
                   [] kind = "sim"   -> simTime
                   [] kind = "ticks" -> 0
    /\ wSpent' = 0
    /\ progress' = IF exKind = "manual" THEN ProgressStarted ELSE "running"
    /\ exLast' = "wait_start"
    /\ exErr' = "none"
    /\ nTick' = 0
    /\ nStep' = 0
    /\ nWaitTick' = 0
    /\ nApply' = 0
    /\ UNCHANGED <<exKind, exState, srvSync, syncAtCall, realTime, simTime>>
    /\ UNCHANGED nonExecVars

\* One iteration of a ManualExecutor wait loop: tick(), then the live
\* measurement, then progress.update. An exception of tick() ends the call.
ManualWaitIterate(d, dt, stepFails) ==
    /\ exKind = "manual"
    /\ wPc = "loop"
    /\ LoopContinues(wSpent, wArg)
    /\ ManualTickStep(d, dt, stepFails)
    /\ IF stepFails
       THEN /\ wPc' = "idle"
            /\ exLast' = "wait_raised"
            /\ exErr' = "RuntimeError"
            /\ UNCHANGED wSpent
       ELSE /\ wSpent' = CASE wKind = "real"  -> realTime' - wBegin
                           [] wKind = "sim"   -> SimSpent(simTime', wBegin, wSpent)
                           [] wKind = "ticks" -> wSpent + 1
            /\ UNCHANGED <<wPc, exLast, exErr>>
    /\ UNCHANGED <<exKind, exState, srvSync, syncAtCall, wKind, wArg, wBegin, progress,
                   nWaitTick, nApply>>
    /\ UNCHANGED nonExecVars

\* The else clause of a ManualExecutor wait loop: progress.stop(), return.
ManualWaitReturn ==
    /\ exKind = "manual"
    /\ wPc = "loop"
    /\ ~LoopContinues(wSpent, wArg)
    /\ wPc' = "idle"
    /\ progress' = ProgressStopped
    /\ exLast' = "wait_return"
    /\ UNCHANGED <<exKind, exState, srvSync, syncAtCall, exErr, realTime, simTime,
                   wKind, wArg, wBegin, wSpent, nTick, nStep, nWaitTick, nApply>>
    /\ UNCHANGED nonExecVars

\* One iteration of PassiveExecutor.wait_ticks: the count, then
\* world.wait_for_tick(), which blocks until the server's next tick.
PassiveWaitIterate ==
    /\ exKind = "passive"
    /\ wPc = "loop"
    /\ wKind = "ticks"
    /\ RangeHasNext(wSpent, wArg)
    /\ wSpent' = wSpent + 1
    /\ nWaitTick' = nWaitTick + 1
    /\ wPc' = "blocked"
    /\ UNCHANGED <<exKind, exState, srvSync, syncAtCall, exLast, exErr, realTime, simTime,
                   wKind, wArg, wBegin, progress, nTick, nStep, nApply>>
    /\ UNCHANGED nonExecVars

\* world.wait_for_tick() inside PassiveExecutor.wait_ticks raises (its
\* timeout passes without a server tick): the exception leaves the call from
\* inside the for loop, flag_show_log = False is not reached.
PassiveWaitTickFails ==
    /\ exKind = "passive"
    /\ wPc = "blocked"
    /\ wPc' = "idle"
    /\ exLast' = "wait_raised"
    /\ exErr' = "RuntimeError"
    /\ UNCHANGED <<exKind, exState, srvSync, syncAtCall, realTime, simTime,
                   wKind, wArg, wBegin, wSpent, progress, nTick, nStep, nWaitTick, nApply>>
    /\ UNCHANGED nonExecVars

\* The end of a PassiveExecutor wait: time.sleep(seconds) is over, or the
\* loop condition is false; then flag_show_log = False and return.
PassiveWaitReturn ==
    /\ exKind = "passive"
    /\ wPc = "loop"
    /\ CASE wKind = "real"  -> realTime - wBegin >= wArg
         [] wKind = "sim"   -> ~PassiveSimContinues(simTime, wBegin, wArg)
         [] wKind = "ticks" -> ~RangeHasNext(wSpent, wArg)
    /\ wPc' = "idle"
    /\ progress' = "stopped"
    /\ exLast' = "wait_return"
    /\ UNCHANGED <<exKind, exState, srvSync, syncAtCall, exErr, realTime, simTime,
                   wKind, wArg, wBegin, wSpent, nTick, nStep, nWaitTick, nApply>>
    /\ UNCHANGED nonExecVars

\* tick() called by the user outside a wait.
ManualTick(d, dt, stepFails) ==
    /\ exKind = "manual"
    /\ wPc = "idle"
    /\ realTime + dt <= MaxTime
    /\ simTime + d <= MaxTime
    /\ realTime' = realTime + dt
    /\ simTime' = IF stepFails THEN simTime ELSE simTime + d
    /\ nTick' = 1
    /\ nStep' = 1
    /\ nWaitTick' = 0
    /\ nApply' = 0
    /\ exLast' = "tick"
    /\ exErr' = IF stepFails THEN "RuntimeError" ELSE "none"
    /\ UNCHANGED <<exKind, exState, srvSync, syncAtCall, wPc, wKind, wArg, wBegin, wSpent,
                   progress>>
    /\ UNCHANGED nonExecVars

\* The remote calls in the body of PassiveExecutor.tick: none, it only logs
\* a warning.
PassiveTickCallsWorldTick == <<"tick">>

PassiveTickCalls == <<>>

\* PassiveExecutor.tick: a warning, nothing else.
PassiveTick ==
    /\ exKind = "passive"
    /\ wPc = "idle"
    /\ nTick' = 1
    /\ nStep' = Len(PassiveTickCalls)
    /\ nWaitTick' = 0
    /\ nApply' = 0
    /\ exLast' = "tick"
    /\ exErr' = "none"
    /\ UNCHANGED <<exKind, exState, srvSync, syncAtCall, realTime, simTime, wPc, wKind, wArg,
                   wBegin, wSpent, progress>>
    /\ UNCHANGED nonExecVars

\* The start of spin(): ManualExecutor starts its logging thread (flag_show_log
\* = True, thread_log.start()) and enters "try: while True"; PassiveExecutor
\* starts no thread and enters its loop. progress is the reporter of the call
\* in hand.
SpinStart ==
    /\ wPc = "idle"
    /\ wPc' = "spin"
    /\ progress' = IF exKind = "manual" THEN "running" ELSE "none"
    /\ exLast' = "spin_start"
    /\ exErr' = "none"
    /\ nTick' = 0
    /\ nStep' = 0
    /\ nWaitTick' = 0
    /\ nApply' = 0
    /\ UNCHANGED <<exKind, exState, srvSync, syncAtCall, realTime, simTime,
                   wKind, wArg, wBegin, wSpent>>
    /\ UNCHANGED nonExecVars

\* One iteration of ManualExecutor.spin: self.tick(), count_tick += 1. An
\* exception of world.tick() is not a KeyboardInterrupt and leaves the call.
ManualSpinIterate(d, dt, stepFails) ==
    /\ exKind = "manual"
    /\ wPc = "spin"
    /\ ManualTickStep(d, dt, stepFails)
    /\ IF stepFails
       THEN /\ wPc' = "idle"
            /\ exLast' = "spin_raised"
            /\ exErr' = "RuntimeError"
       ELSE UNCHANGED <<wPc, exLast, exErr>>
    /\ UNCHANGED <<exKind, exState, srvSync, syncAtCall, wKind, wArg, wBegin, wSpent,
                   progress, nWaitTick, nApply>>
    /\ UNCHANGED nonExecVars

\* One iteration of PassiveExecutor.spin: time.sleep(1) and a log line.
PassiveSpinIterate ==
    /\ exKind = "passive"
    /\ wPc = "spin"
    /\ realTime + 1 <= MaxTime
    /\ realTime' = realTime + 1
    /\ UNCHANGED <<exKind, exState, srvSync, syncAtCall, exLast, exErr, simTime, wPc,
                   wKind, wArg, wBegin, wSpent, progress, nTick, nStep, nWaitTick, nApply>>
    /\ UNCHANGED nonExecVars

\* "except KeyboardInterrupt:" around the loop of spin() in both executors.
SpinExceptNothing(e) == FALSE

SpinExcept(e) == e = "KeyboardInterrupt"

\* Ctrl-C while the loop of spin() runs: KeyboardInterrupt is raised in the
\* main thread inside the try block; the handler of ManualExecutor sets
\* flag_show_log = False, the handler of PassiveExecutor only logs.
SpinInterrupt ==
    /\ wPc = "spin"
    /\ wPc' = "idle"
    /\ IF SpinExcept("KeyboardInterrupt")
       THEN /\ exLast' = "spin_return"
            /\ exErr' = "none"
            /\ progress' = IF exKind = "manual" THEN "stopped" ELSE progress
       ELSE /\ exLast' = "spin_raised"
            /\ exErr' = "KeyboardInterrupt"
            /\ UNCHANGED progress
    /\ UNCHANGED <<exKind, exState, srvSync, syncAtCall, realTime, simTime,
                   wKind, wArg, wBegin, wSpent, nTick, nStep, nWaitTick, nApply>>
    /\ UNCHANGED nonExecVars

\* The server steps without this client (asynchronous mode, or another
\* client ticks it): simulated time advances, a blocked wait_for_tick returns.
ServerStep(d) ==
    /\ simTime + d <= MaxTime
    /\ simTime' = simTime + d
    /\ wPc' = IF wPc = "blocked" THEN "loop" ELSE wPc
    /\ UNCHANGED <<exKind, exState, srvSync, syncAtCall, exLast, exErr, realTime,
                   wKind, wArg, wBegin, wSpent, progress, nTick, nStep, nWaitTick, nApply>>
    /\ UNCHANGED nonExecVars

\* Real time passes.
ClockTick ==
    /\ realTime + 1 <= MaxTime
    /\ realTime' = realTime + 1
    /\ UNCHANGED <<exKind, exState, srvSync, syncAtCall, exLast, exErr, simTime,
                   wPc, wKind, wArg, wBegin, wSpent, progress, nTick, nStep, nWaitTick, nApply>>
    /\ UNCHANGED nonExecVars

InitExec ==
    /\ FactoryQuiet
    /\ ContextQuiet("client")
    /\ SensorQuiet
    /\ exKind \in {"manual", "passive"}
    /\ exState = "new"
    /\ srvSync \in BOOLEAN
    /\ syncAtCall = FALSE
    /\ exLast = "init"
    /\ exErr = "none"
    /\ realTime = 0
    /\ simTime = 0
    /\ wPc = "idle"
    /\ wKind = "ticks"
    /\ wArg = 0
    /\ wBegin = 0
    /\ wSpent = 0
    /\ progress = "none"
    /\ nTick = 0
    /\ nStep = 0
    /\ nWaitTick = 0
    /\ nApply = 0

NextExec ==
    \/ ManualEnter
    \/ PassiveEnter
    \/ \E kind \in {"real", "sim", "ticks"}, arg \in 0..MaxWait : WaitStart(kind, arg)
    \/ \E d, dt \in 1..MaxStep, stepFails \in BOOLEAN : ManualWaitIterate(d, dt, stepFails)
    \/ ManualWaitReturn
    \/ PassiveWaitIterate
    \/ PassiveWaitReturn
    \/ PassiveWaitTickFails
    \/ \E d, dt \in 1..MaxStep, stepFails \in BOOLEAN : ManualTick(d, dt, stepFails)
    \/ PassiveTick
    \/ SpinStart
    \/ \E d, dt \in 1..MaxStep, stepFails \in BOOLEAN : ManualSpinIterate(d, dt, stepFails)
    \/ PassiveSpinIterate
    \/ SpinInterrupt
    \/ \E d \in 1..MaxStep : ServerStep(d)
    \/ ClockTick

SpecExec == InitExec /\ [][NextExec]_vars

\* C5: activating the manual executor while the server reports synchronous
\* mode raises ExecutorError, issues no apply_settings and no step, and
\* leaves the server's stepping setting as it was.
C5_ConflictRaisesExecutorError ==
    (exKind = "manual" /\ exLast = "enter" /\ syncAtCall) =>
        /\ exErr = "ExecutorError"
        /\ nApply = 0
        /\ nStep = 0
        /\ srvSync

\* C7: in both executors a wait_* call with argument 0 returns having
\* invoked no tick(), issued no remote step and waited for no server tick,
\* and its progress reporting is stopped.
C7_ZeroWaitIsNoOp ==
    (exLast = "wait_return" /\ wArg = 0) =>
        /\ nTick = 0
        /\ nStep = 0
        /\ nWaitTick = 0
        /\ progress = "stopped"

\* C7 witness: a manual wait_sim_seconds(0) has returned.
C7_Witness ==
    /\ exLast = "wait_return"
    /\ wArg = 0
    /\ exKind = "manual"
    /\ wKind = "sim"
    /\ wPc = "idle"

\* ------------------------------------------------- deferred configuration
InitConfig ==
    /\ FactoryQuiet
    /\ SensorQuiet
    /\ ExecQuiet
    /\ parent = [a \in Actors |-> NoActor]
    /\ isSensor \in {f \in [Actors -> BOOLEAN] : \A a \in Actors \ ConfigActors : ~f[a]}
    /\ actors = <<>>
    /\ entity = [a \in Actors |-> "none"]
    /\ client = "client"
    /\ timeout = DefaultTimeout
    /\ created = 0
    /\ ret = "none"
    /\ listening = [a \in Actors |-> FALSE]
    /\ serverUp = TRUE
    /\ inScope = FALSE
    /\ excInside = "none"
    /\ setup = [a \in Actors |-> <<>>]
    /\ remote = [a \in Actors |-> DefaultRemote]
    /\ lastOp = "init"
    /\ lastCall = NoCall
    /\ sortedActors = <<>>
    /\ calls = <<>>
    /\ err = "none"

NextConfig ==
    \/ \E a \in ConfigActors, option \in Options : SetGravity(a, option)
    \/ \E a \in ConfigActors, option \in Options : SetPhysics(a, option)
    \/ \E a \in ConfigActors, option \in Options : SetAutopilot(a, option)
    \/ \E a \in ConfigActors, createFails \in BOOLEAN : SpawnActor(a, createFails)
    \/ \E a \in ConfigActors, destroyFails \in BOOLEAN : DestroyActor(a, destroyFails)

SpecConfig == InitConfig /\ [][NextConfig]_vars

DeferredMethods == {"set_gravity", "set_physics", "set_autopilot"}

\* The setting of the remote entity a configuration method writes.
RemoteSetting(r, method) ==
    CASE method = "set_gravity"   -> r.gravity
      [] method = "set_physics"   -> r.physics
      [] method = "set_autopilot" -> r.autopilot

\* C10: each of set_gravity, set_physics and set_autopilot called on an
\* unspawned entity does not raise and records the action, and when spawn()
\* has returned every recorded setting is applied to the remote entity with
\* the recorded value.
C10_DeferredConfigRecordedAndApplied ==
    /\ (lastOp \in DeferredMethods /\ ~lastCall.alive) =>
          /\ err = "none"
          /\ <<lastOp, lastCall.option>> \in Range(setup[lastCall.actor])
    /\ (lastOp = "spawn" /\ err = "none") =>
          \A k \in 1..Len(setup[lastCall.actor]) :
              RemoteSetting(remote[lastCall.actor], setup[lastCall.actor][k][1])
                  = setup[lastCall.actor][k][2]

\* ----------------------------- the entity lifecycle and the connection
\* context.destroy_all_actors() called by the user.
DestroyAllCall(failAt) ==
    LET st == DestroyAllActors(1, [entity |-> entity, listening |-> listening,
                                   log |-> <<>>, err |-> "none"], failAt)
    IN /\ entity' = st.entity
       /\ listening' = st.listening
       /\ lastOp' = "destroy_all"
       /\ lastCall' = NoCall
       /\ sortedActors' = <<>>
       /\ calls' = st.log
       /\ err' = st.err
       /\ UNCHANGED <<parent, actors, client, isSensor, serverUp, inScope, excInside,
                      cfgVars, connVars, otherVars>>

\* context.disconnect() called by the user.
DisconnectCall(stopFailAt, destroyFailAt) ==
    LET d == Disconnect(stopFailAt, destroyFailAt)
    IN /\ entity' = d.entity
       /\ listening' = d.listening
       /\ client' = d.client
       /\ timeout' = IF d.client = "none" THEN "none" ELSE timeout
       /\ created' = 0
       /\ ret' = "none"
       /\ lastOp' = "disconnect"
       /\ lastCall' = NoCall
       /\ sortedActors' = <<>>
       /\ calls' = d.log
       /\ err' = d.err
       /\ UNCHANGED <<parent, actors, isSensor, serverUp, inScope, excInside, cfgVars, otherVars>>

\* context.connect() called by the user.
ConnectCall ==
    /\ client' = Connect.client
    /\ timeout' = Connect.timeout
    /\ created' = Connect.created
    /\ ret' = "none"
    /\ lastOp' = "connect"
    /\ lastCall' = NoCall
    /\ sortedActors' = <<>>
    /\ calls' = <<>>
    /\ err' = Connect.err
    /\ UNCHANGED <<parent, actors, entity, sessVars, cfgVars, otherVars>>

\* context.test_connection() called by the user.
ProbeCall ==
    LET r == TestConnectionRun(client, timeout)
    IN /\ ret' = IF r.ret THEN "True" ELSE "False"
       /\ timeout' = r.timeout
       /\ created' = 0
       /\ lastOp' = "test_connection"
       /\ lastCall' = NoCall
       /\ sortedActors' = <<>>
       /\ calls' = <<>>
       /\ err' = r.err
       /\ UNCHANGED <<ctxVars, sessVars, cfgVars, otherVars>>

\* The remote object of a spawned Actor stops being alive without this
\* client destroying it (the server or another client removes it): the case
\* that Actor.is_alive and the re-spawn warning of Actor.spawn provide for.
RemoteDies(a) ==
    /\ entity[a] = "alive"
    /\ entity' = [entity EXCEPT ![a] = "dead"]
    /\ listening' = [listening EXCEPT ![a] = FALSE]
    /\ lastOp' = "remote_dies"
    /\ lastCall' = [NoCall EXCEPT !.actor = a]
    /\ sortedActors' = <<>>
    /\ calls' = <<>>
    /\ err' = "none"
    /\ UNCHANGED <<parent, actors, client, isSensor, serverUp, inScope, excInside,
                   cfgVars, connVars, otherVars>>

\* Actors built through the factory, so registered after their parents, on
\* a connected Context: they are spawned, destroyed and spawned again, one
\* by one or all together, and their remote objects may die meanwhile.
InitLifecycle ==
    /\ FactoryQuiet
    /\ SensorQuiet
    /\ ExecQuiet
    /\ parent \in {p \in [Actors -> Actors \cup {NoActor}] :
                      \A a \in Actors : IF a \in SessionActors THEN p[a] < a ELSE p[a] = NoActor}
    /\ isSensor = [a \in Actors |-> FALSE]
    /\ actors = <<>>
    /\ entity = [a \in Actors |-> "none"]
    /\ client = "client"
    /\ timeout = DefaultTimeout
    /\ created = 0
    /\ ret = "none"
    /\ listening = [a \in Actors |-> FALSE]
    /\ serverUp = TRUE
    /\ inScope = FALSE
    /\ excInside = "none"
    /\ setup = [a \in Actors |-> <<>>]
    /\ remote = [a \in Actors |-> DefaultRemote]
    /\ lastOp = "init"
    /\ lastCall = NoCall
    /\ sortedActors = <<>>
    /\ calls = <<>>
    /\ err = "none"

NextLifecycle ==
    \/ \E a \in SessionActors : a = Len(actors) + 1 /\ Register(a)
    \/ \E a \in Range(actors), createFails \in BOOLEAN : SpawnActor(a, createFails)
    \/ \E a \in Range(actors), destroyFails \in BOOLEAN : DestroyActor(a, destroyFails)
    \/ \E failAt \in 0..NumSessionActors : SpawnAllActors(failAt)
    \/ \E failAt \in 0..NumSessionActors : DestroyAllCall(failAt)
    \/ \E a \in SessionActors : RemoteDies(a)

SpecLifecycle == InitLifecycle /\ [][NextLifecycle]_vars

\* A Context that is connected, probed and disconnected, directly and through
\* the with statement, while the server comes and goes; its Actors are
\* spawned and its sensors armed so that disconnect() has remote calls to make.
InitConnection ==
    /\ FactoryQuiet
    /\ SensorQuiet
    /\ ExecQuiet
    /\ parent \in {p \in [Actors -> Actors \cup {NoActor}] :
                      \A a \in Actors : IF a \in ConfigActors THEN p[a] < a ELSE p[a] = NoActor}
    /\ isSensor \in {f \in [Actors -> BOOLEAN] : \A a \in Actors \ ConfigActors : ~f[a]}
    /\ actors = <<>>
    /\ entity = [a \in Actors |-> "none"]
    /\ client = "none"
    /\ timeout = "none"
    /\ created = 0
    /\ ret = "none"
    /\ listening = [a \in Actors |-> FALSE]
    /\ serverUp = TRUE
    /\ inScope = FALSE
    /\ excInside = "none"
    /\ setup = [a \in Actors |-> <<>>]
    /\ remote = [a \in Actors |-> DefaultRemote]
    /\ lastOp = "init"
    /\ lastCall = NoCall
    /\ sortedActors = <<>>
    /\ calls = <<>>
    /\ err = "none"

NextConnection ==
    \/ \E a \in ConfigActors : a = Len(actors) + 1 /\ Register(a)
    \/ SpawnAllActors(0)
    \/ ListenAllSensors
    \/ \E stopFailAt, destroyFailAt \in 0..NumConfigActors :
          DisconnectCall(stopFailAt, destroyFailAt)
    \/ ConnectCall
    \/ ProbeCall
    \/ ContextEnter
    \/ \E exc \in {"none", "UserError"}, stopFailAt, destroyFailAt \in 0..NumConfigActors :
          ContextExit(exc, stopFailAt, destroyFailAt)
    \/ ServerToggle

SpecConnection == InitConnection /\ [][NextConnection]_vars

\* C11: destroy() on an Actor that holds no entity, because it was never
\* spawned or was destroyed before, raises nothing, issues no remote call and
\* leaves the state of every Actor as it was.
C11_DestroyWithoutEntityIsNoOp ==
    [][\A a \in SessionActors, destroyFails \in BOOLEAN :
          (DestroyActor(a, destroyFails) /\ entity[a] = "none") =>
              /\ err' = "none"
              /\ calls' = <<>>
              /\ entity' = entity
              /\ listening' = listening
              /\ remote' = remote
              /\ setup' = setup]_vars

\* C11 witness: destroy() has just run on an Actor that holds no entity, with
\* no remote call and no exception.
C11_Witness ==
    /\ lastOp = "destroy"
    /\ lastCall.actor \in SessionActors
    /\ entity[lastCall.actor] = "none"
    /\ calls = <<>>
    /\ err = "none"

\* The remote create calls, world.spawn_actor, among the calls of a handler.
CreateCalls(log) == SelectSeq(log, LAMBDA c : c[1] = "spawn_actor")

\* C12: spawn() on an Actor whose entity is alive raises ContextError, issues
\* no remote create call and leaves the Actor bound to the entity it had; and
\* spawn_all_actors() with every registered Actor alive creates no remote
\* object.
C12_SpawnOfAliveEntityConflicts ==
    [][/\ \A a \in SessionActors, createFails \in BOOLEAN :
             (SpawnActor(a, createFails) /\ entity[a] = "alive") =>
                 /\ err' = "ContextError"
                 /\ CreateCalls(calls') = <<>>
                 /\ entity' = entity
                 /\ remote' = remote
       /\ \A failAt \in 0..NumSessionActors :
             (/\ SpawnAllActors(failAt)
              /\ actors # <<>>
              /\ \A a \in Range(actors) : entity[a] = "alive") =>
                 /\ CreateCalls(calls') = <<>>
                 /\ entity' = entity
                 /\ remote' = remote]_vars

\* C12 witness: a spawn_all_actors() over Actors that are all alive has ended
\* with the conflict and without a remote call.
C12_Witness ==
    /\ lastOp = "spawn_all"
    /\ err = "ContextError"
    /\ Len(actors) = NumSessionActors
    /\ \A a \in Range(actors) : entity[a] = "alive"
    /\ calls = <<>>

\* C13: spawn() on an Actor whose parent is set and is not alive raises
\* ContextError and issues no remote create call; and whenever spawn() or
\* spawn_all_actors() has issued the remote create of an Actor with a parent,
\* that parent is alive.
C13_ChildNeedsAliveParent ==
    [][/\ \A a \in SessionActors, createFails \in BOOLEAN :
             (/\ SpawnActor(a, createFails)
              /\ parent[a] # NoActor
              /\ entity[parent[a]] # "alive") =>
                 /\ err' = "ContextError"
                 /\ CreateCalls(calls') = <<>>
                 /\ entity' = entity
       /\ \/ \E a \in SessionActors, createFails \in BOOLEAN : SpawnActor(a, createFails)
          \/ \E failAt \in 0..NumSessionActors : SpawnAllActors(failAt)
          => \A i \in 1..Len(CreateCalls(calls')) :
                LET a == CreateCalls(calls')[i][2]
                IN parent[a] # NoActor => entity'[parent[a]] = "alive"]_vars

\* C13 witness: spawn() of an Actor that is not spawned, with a parent that is
\* not alive, has ended with the error and without a remote call.
C13_Witness ==
    /\ lastOp = "spawn"
    /\ err = "ContextError"
    /\ lastCall.actor \in SessionActors
    /\ parent[lastCall.actor] # NoActor
    /\ entity[parent[lastCall.actor]] # "alive"
    /\ entity[lastCall.actor] # "alive"
    /\ calls = <<>>

\* C14: when spawn_all_actors() starts with no registered Actor alive and the
\* remote create of the k-th Actor of its order fails, the caller gets the
\* error (CarlaError), the Actors before the k-th are alive, and the k-th and
\* every later one is not alive and had no remote create call.
C14_FailedCreateKeepsEarlierSpawns ==
    [][\A k \in 1..NumSessionActors :
          (/\ SpawnAllActors(k)
           /\ k <= Len(SortedActors)
           /\ \A a \in Range(actors) : entity[a] # "alive") =>
              /\ err' = "CarlaError"
              /\ \A i \in 1..(k - 1) : entity'[SortedActors[i]] = "alive"
              /\ \A i \in k..Len(SortedActors) : entity'[SortedActors[i]] # "alive"
              /\ \A i \in (k + 1)..Len(SortedActors) :
                    \A j \in 1..Len(calls') : calls'[j][2] # SortedActors[i]]_vars

\* C14 witness: a spawn_all_actors() has failed at its second Actor and the
\* first one is alive.
C14_Witness ==
    /\ lastOp = "spawn_all"
    /\ err = "CarlaError"
    /\ Len(sortedActors) >= 2
    /\ entity[sortedActors[1]] = "alive"
    /\ entity[sortedActors[2]] # "alive"
    /\ calls = <<<<"spawn_actor", sortedActors[1]>>, <<"spawn_actor", sortedActors[2]>>>>

\* C15: connect() on a Context that holds a handle whose probe succeeds
\* keeps that handle, constructs no carla.Client, raises nothing, and leaves
\* the registered Actors, their entities and the handle's timeout as they were.
C15_ConnectKeepsLiveHandle ==
    [][(ConnectCall /\ client # "none" /\ serverUp) =>
          /\ client' = client
          /\ created' = 0
          /\ err' = "none"
          /\ actors' = actors
          /\ entity' = entity
          /\ timeout' = timeout
          /\ timeout' = DefaultTimeout]_vars

\* C15 witness: a connect() has returned with a handle and constructed none.
C15_Witness ==
    /\ lastOp = "connect"
    /\ client # "none"
    /\ created = 0
    /\ err = "none"

\* C16: test_connection() raises nothing; it returns True when a handle
\* exists and the server answers and False otherwise; and whenever a handle
\* exists its timeout after the call is the default one, not the probe's.
C16_ProbeRestoresTimeout ==
    [][ProbeCall =>
          /\ err' = "none"
          /\ ret' = IF client # "none" /\ serverUp THEN "True" ELSE "False"
          /\ client' = client
          /\ client # "none" => timeout' = DefaultTimeout]_vars

\* C16 witness: a probe on an existing handle has failed and the handle
\* carries the default timeout.
C16_Witness ==
    /\ lastOp = "test_connection"
    /\ client # "none"
    /\ ret = "False"
    /\ timeout = DefaultTimeout
    /\ err = "none"

\* C17: when the server does not answer the probe, connect() raises
\* RuntimeError having constructed one handle and no more, and __enter__
\* raises ContextError and the body of the with statement is not entered.
C17_FailedProbeSurfaces ==
    [][/\ (ConnectCall /\ ~serverUp) =>
             /\ err' = "RuntimeError"
             /\ created' = 1
       /\ (ContextEnter /\ ~serverUp) =>
             /\ err' = "ContextError"
             /\ created' = 1
             /\ ~inScope']_vars

\* C17 witness: __enter__ has raised ContextError after one handle was
\* constructed, and the scope is not entered.
C17_Witness ==
    /\ lastOp = "enter"
    /\ err = "ContextError"
    /\ created = 1
    /\ ~inScope
    /\ ~serverUp

\* C18: after disconnect() was called the handle is cleared, also when a
\* sensor's stop or an entity's destroy raised during the call.
C18_DisconnectClearsHandle ==
    lastOp = "disconnect" => client = "none"

\* The registered Actors that hold an entity of the given kind, in
\* registration order.
RegisteredWith(ent, kinds) == SelectSeq(actors, LAMBDA a : ent[a] \in kinds)

\* C19: a destroy_all_actors() that returns has issued one remote destroy call
\* for every registered Actor that held an entity, the alive ones among them
\* in registration order, and no registered Actor is spawned afterwards.
C19_DestroyAllInRegistrationOrder ==
    [][\A failAt \in 0..NumSessionActors :
          (DestroyAllCall(failAt) /\ err' = "none") =>
              /\ calls' = [i \in 1..Len(RegisteredWith(entity, {"alive", "dead"})) |->
                              <<"destroy", RegisteredWith(entity, {"alive", "dead"})[i]>>]
              /\ SelectSeq(calls', LAMBDA c : entity[c[2]] = "alive")
                    = [i \in 1..Len(RegisteredWith(entity, {"alive"})) |->
                          <<"destroy", RegisteredWith(entity, {"alive"})[i]>>]
              /\ \A a \in Range(actors) : entity'[a] = "none"]_vars

\* C19 witness: destroy_all_actors() has returned after destroying every
\* registered Actor, in registration order.
C19_Witness ==
    /\ lastOp = "destroy_all"
    /\ err = "none"
    /\ Len(actors) = NumSessionActors
    /\ calls = [i \in 1..Len(actors) |-> <<"destroy", actors[i]>>]
    /\ \A a \in Range(actors) : entity[a] = "none"

\* C20: during destroy_all_actors() no Actor's remote destroy call is issued
\* while a registered child of it is still alive: every alive child's destroy
\* call comes before its parent's.
C20_ChildrenDestroyedBeforeParents ==
    [][\A failAt \in 0..NumSessionActors :
          DestroyAllCall(failAt) =>
              \A i \in 1..Len(calls') : \A c \in Range(actors) :
                  (parent[c] = calls'[i][2] /\ entity[c] = "alive") =>
                      \E j \in 1..(i - 1) : calls'[j][2] = c]_vars

\* C21: tick() of the PassiveExecutor issues no remote step, no
\* apply_settings and no wait_for_tick, and leaves the server's stepping
\* setting and the simulated time as they were.
C21_PassiveTickIsLocal ==
    [][PassiveTick =>
          /\ nStep' = 0
          /\ nApply' = 0
          /\ nWaitTick' = 0
          /\ srvSync' = srvSync
          /\ simTime' = simTime]_vars

\* C21 witness: a PassiveExecutor's tick() has run.
C21_Witness ==
    /\ exKind = "passive"
    /\ exLast = "tick"
    /\ nTick = 1
    /\ nStep = 0
    /\ exErr = "none"

\* C22: activating the PassiveExecutor succeeds whether the server is in
\* synchronous mode or not, and leaves the server's stepping setting as it
\* was.
C22_PassiveActivationSucceeds ==
    (exKind = "passive" /\ exLast = "enter") =>
        /\ exErr = "none"
        /\ exState = "active"
        /\ srvSync = syncAtCall

\* C23: once a wait_* call has ended, by return or by an exception, the
\* progress reporter it started is no longer running.
C23_NoReporterAfterWait ==
    (wPc = "idle" /\ exLast \in {"wait_return", "wait_raised"}) => progress # "running"

C25_WaitTicksCountsSteps ==
    (exLast = "wait_return" /\ wKind = "ticks") =>
        IF exKind = "manual"
        THEN nStep = wArg /\ nWaitTick = 0
        ELSE nStep = 0 /\ nWaitTick = wArg

\* C25 witness: a PassiveExecutor's wait_ticks(MaxWait) has returned.
C25_Witness ==
    /\ exKind = "passive"
    /\ exLast = "wait_return"
    /\ wKind = "ticks"
    /\ wArg = MaxWait
    /\ nWaitTick = MaxWait

\* C26: when wait_sim_seconds(duration) returns, the server's elapsed
\* simulated time is at least duration more than when the call started,
\* whatever the sizes of the steps in between.
C26_WaitSimCoversDuration ==
    (exLast = "wait_return" /\ wKind = "sim") => simTime - wBegin >= wArg

\* C26 witness: a ManualExecutor's wait_sim_seconds(MaxWait) has returned
\* after steps shorter than the largest step.
C26_Witness ==
    /\ exKind = "manual"
    /\ exLast = "wait_return"
    /\ wKind = "sim"
    /\ wArg = MaxWait
    /\ nStep = MaxWait
    /\ simTime - wBegin >= wArg

\* C30: tick() of a ManualExecutor whose scope is not active (never
\* entered, entering failed, or exited), with the server not in synchronous
\* mode, ends with an error and issues no remote step.
C30_TickOutsideScopeFails ==
    (exKind = "manual" /\ exLast = "tick" /\ exState # "active" /\ ~srvSync) =>
        (exErr # "none" /\ nStep = 0)

InitFactory ==
    /\ ContextQuiet("client")
    /\ SensorQuiet
    /\ ExecQuiet
    /\ FactoryQuiet

NextFactory ==
    \/ \E actor_class \in ActorClasses, from_blueprint \in BlueprintArgs,
          from_template \in TemplateArgs :
          FactoryCreate(actor_class, from_blueprint, from_template)
    \/ \E a \in ConfigActors : a = Len(actors) + 1 /\ builder # NoBuilder /\ Register(a)

SpecFactory == InitFactory /\ [][NextFactory]_vars

\* C28: create() called with both from_blueprint and from_template, or with
\* arguments from which no blueprint name results, raises, returns no
\* Builder and leaves the Context's list of Actors as it was. The arguments
\* of a create() step are those it leaves in createArgs.
C28_BadCreateRaisesAndAddsNothing ==
    [][LET actor_class == createArgs'.actor_class
           from_blueprint == createArgs'.from_blueprint
           from_template == createArgs'.from_template
       IN (/\ FactoryCreate(actor_class, from_blueprint, from_template)
           /\ \/ from_blueprint # "none" /\ from_template # "none"
              \/ from_blueprint = "other"
              \/ from_blueprint = "none" /\ from_template = "other"
              \/ /\ from_blueprint = "none"
                 /\ from_template = "none"
                 /\ actor_class \notin DOMAIN ACTOR_CLASS_TO_BLUEPRINT)
          => /\ err' = "ValueError"
             /\ builder' = NoBuilder
             /\ actors' = actors
             /\ entity' = entity]_vars

\* C28 witness: create() was called with both arguments on a Context that
\* already holds an Actor, and raised.
C28_Witness ==
    /\ lastOp = "create"
    /\ createArgs.from_blueprint = "str"
    /\ createArgs.from_template = "ActorTemplate"
    /\ err = "ValueError"
    /\ builder = NoBuilder
    /\ Len(actors) = NumConfigActors

\* The Context holds no connection that a connect() established: _client is
\* None (never connected, or disconnect() has cleared it), or the last
\* connect() raised.
SessionIdle == client = "none" \/ (lastOp = "connect" /\ err # "none")

\* C29: spawn_all_actors() called on a Context that is not connected leaves
\* every registered Actor without a live entity.
C29_NoSpawnWhileIdle ==
    [][\A failAt \in 0..NumConfigActors :
          (SpawnAllActors(failAt) /\ SessionIdle) =>
              \A a \in Range(actors) : entity'[a] # "alive"]_vars

\* ------------------------------ several ManualExecutors and one server
\* The executors of the exec part that the steps of one __enter__ leave alone.
execButMode == <<exKind, exState, syncAtCall, exLast, exErr, realTime, simTime, wPc, wKind,
                 wArg, wBegin, wSpent, progress, nTick, nStep, nWaitTick, nApply>>

\* ManualExecutor.__enter__, first step: the attribute self.is_synchronous_mode
\* is read, the getter asks the server for its settings and returns the bool.
DriverReadMode(c) ==
    /\ drvPc[c] = "new"
    /\ drvPc' = [drvPc EXCEPT ![c] = "read"]
    /\ drvSeen' = [drvSeen EXCEPT ![c] = IsSynchronousMode]
    /\ UNCHANGED <<drvErr, srvSync, execButMode>>
    /\ UNCHANGED <<ctxVars, sessVars, connVars, cfgVars, obsVars, sensVars, factVars, listVars, repVars, stepVars,
                   attrVars>>

\* ManualExecutor.__enter__, the rest: the value read is called, and what
\* follows the test: raise ExecutorError, or set_synchronous_mode(True).
DriverEnterRest(c) ==
    /\ drvPc[c] = "read"
    /\ LET check == CallPropertyValue(drvSeen[c])
       IN IF check.raised # "none"
          THEN /\ drvPc' = [drvPc EXCEPT ![c] = "failed"]
               /\ drvErr' = [drvErr EXCEPT ![c] = check.raised]
               /\ UNCHANGED srvSync
          ELSE IF check.value
          THEN /\ drvPc' = [drvPc EXCEPT ![c] = "failed"]
               /\ drvErr' = [drvErr EXCEPT ![c] = "ExecutorError"]
               /\ UNCHANGED srvSync
          ELSE /\ drvPc' = [drvPc EXCEPT ![c] = "active"]
               /\ drvErr' = [drvErr EXCEPT ![c] = "none"]
               /\ srvSync' = SetSynchronousMode(TRUE).srvSync
    /\ UNCHANGED <<drvSeen, execButMode>>
    /\ UNCHANGED <<ctxVars, sessVars, connVars, cfgVars, obsVars, sensVars, factVars, listVars, repVars, stepVars,
                   attrVars>>

\* The caller, whose with statement raised, writes the with statement again.
DriverRetry(c) ==
    /\ drvPc[c] = "failed"
    /\ drvPc' = [drvPc EXCEPT ![c] = "new"]
    /\ drvErr' = [drvErr EXCEPT ![c] = "none"]
    /\ UNCHANGED <<drvSeen, srvSync, execButMode>>
    /\ UNCHANGED <<ctxVars, sessVars, connVars, cfgVars, obsVars, sensVars, factVars, listVars, repVars, stepVars,
                   attrVars>>

\* The server's synchronous_mode is changed from outside these executors
\* (its start-up configuration, or a client that is not one of them).
ServerModeChanges ==
    /\ srvSync' = ~srvSync
    /\ UNCHANGED <<drvVars, execButMode>>
    /\ UNCHANGED <<ctxVars, sessVars, connVars, cfgVars, obsVars, sensVars, factVars, listVars, repVars, stepVars,
                   attrVars>>

InitDrivers ==
    /\ ContextQuiet("client")
    /\ SensorQuiet
    /\ ExecQuiet
    /\ FactoryQuiet

NextDrivers ==
    \/ \E c \in Drivers : DriverReadMode(c)
    \/ \E c \in Drivers : DriverEnterRest(c)
    \/ \E c \in Drivers : DriverRetry(c)
    \/ ServerModeChanges

SpecDrivers == InitDrivers /\ [][NextDrivers]_vars

StopGuardEntityOnly(ent, lis, a) == ent[a] # "none"

StopGuard(ent, lis, a) == ent[a] # "none" /\ lis[a]

\* sensor.stop() called for one Sensor; stopFails says that the remote
\* entity.stop() raises RuntimeError.
SensorStop(a, stopFails) ==
    /\ isSensor[a]
    /\ lastOp' = "stop"
    /\ lastCall' = [NoCall EXCEPT !.actor = a]
    /\ sortedActors' = <<>>
    /\ IF StopGuard(entity, listening, a)
       THEN /\ calls' = <<<<"stop", a>>>>
            /\ IF stopFails
               THEN /\ err' = "RuntimeError"
                    /\ UNCHANGED listening
               ELSE /\ err' = "none"
                    /\ listening' = [listening EXCEPT ![a] = FALSE]
       ELSE /\ calls' = <<>>
            /\ err' = "none"
            /\ UNCHANGED listening
    /\ UNCHANGED <<ctxVars, isSensor, serverUp, inScope, excInside, cfgVars, connVars, otherVars>>

\* Sensors built through the factory on a connected Context: spawned, armed,
\* stopped and destroyed in every order, their remote objects dying meanwhile.
InitArming ==
    /\ FactoryQuiet
    /\ SensorQuiet
    /\ ExecQuiet
    /\ parent = [a \in Actors |-> NoActor]
    /\ isSensor = [a \in Actors |-> a \in SessionActors]
    /\ actors = <<>>
    /\ entity = [a \in Actors |-> "none"]
    /\ client = "client"
    /\ timeout = DefaultTimeout
    /\ created = 0
    /\ ret = "none"
    /\ listening = [a \in Actors |-> FALSE]
    /\ serverUp = TRUE
    /\ inScope = FALSE
    /\ excInside = "none"
    /\ setup = [a \in Actors |-> <<>>]
    /\ remote = [a \in Actors |-> DefaultRemote]
    /\ lastOp = "init"
    /\ lastCall = NoCall
    /\ sortedActors = <<>>
    /\ calls = <<>>
    /\ err = "none"

NextArming ==
    \/ \E a \in SessionActors : a = Len(actors) + 1 /\ Register(a)
    \/ \E a \in Range(actors), createFails \in BOOLEAN : SpawnActor(a, createFails)
    \/ ListenAllSensors
    \/ \E a \in Range(actors), stopFails \in BOOLEAN : SensorStop(a, stopFails)
    \/ \E a \in Range(actors), destroyFails \in BOOLEAN : DestroyActor(a, destroyFails)
    \/ \E a \in Range(actors) : RemoteDies(a)

SpecArming == InitArming /\ [][NextArming]_vars

\* C32: stop() on a Sensor that has no entity or whose entity is not
\* listening makes no remote call, does not raise and changes nothing; so
\* does the second of two stop() calls in a row.
C32_StopIsIdempotent ==
    [][\A a \in SessionActors, stopFails \in BOOLEAN :
          (/\ SensorStop(a, stopFails)
           /\ \/ entity[a] = "none"
              \/ ~listening[a]
              \/ lastOp = "stop" /\ lastCall.actor = a /\ err = "none")
          => /\ calls' = <<>>
             /\ err' = "none"
             /\ listening' = listening
             /\ entity' = entity]_vars

\* C32 witness: stop() was called on a spawned Sensor that is not listening,
\* while another Sensor is.
C32_Witness ==
    /\ lastOp = "stop"
    /\ lastCall.actor = 1
    /\ entity[1] = "alive"
    /\ ~listening[1]
    /\ listening[2]
    /\ calls = <<>>
    /\ err = "none"

\* ------------------------------------------ one Actor's deferred settings
\* The Actor whose recording and replay are followed.
ReplayActor == CHOOSE a \in ConfigActors : TRUE

\* One Actor configured, spawned, destroyed and spawned again.
NextReplay ==
    \/ \E option \in Options : SetGravity(ReplayActor, option)
    \/ \E option \in Options : SetPhysics(ReplayActor, option)
    \/ \E option \in Options : SetAutopilot(ReplayActor, option)
    \/ \E createFails \in BOOLEAN : SpawnActor(ReplayActor, createFails)
    \/ \E destroyFails \in BOOLEAN : DestroyActor(ReplayActor, destroyFails)

SpecReplay == InitConfig /\ [][NextReplay]_vars

\* The methods recorded in a _setup, in its order.
SetupKeys(d) == [k \in 1..Len(d) |-> d[k][1]]

C34_EveryRegisteredSpawnedOnce ==
    (lastOp = "spawn_all" /\ err = "none" /\ ~HasCycle) =>
        \A a \in Range(actors) :
            (parent[a] = NoActor \/ parent[a] \in Range(actors)) =>
                /\ Cardinality({i \in 1..Len(calls) : calls[i] = <<"spawn_actor", a>>}) = 1
                /\ entity[a] = "alive"

\* ------------------------------------------------------ reload_world
\* context.reload_world(map_name, reset_actor_list): the client reloads the
\* world, which removes every actor on the server, and with reset_actor_list
\* "self._actors = list()" binds a new list object to the Context. The
\* remote call raises AttributeError on a None client and RuntimeError when
\* the server does not answer; the reset is then not reached.
ReloadWorld(reset_actor_list) ==
    /\ lastOp' = "reload_world"
    /\ lastCall' = NoCall
    /\ sortedActors' = <<>>
    /\ calls' = IF client = "none" THEN <<>> ELSE <<<<"reload_world">>>>
    /\ IF client = "none" \/ ~serverUp
       THEN /\ err' = IF client = "none" THEN "AttributeError" ELSE "RuntimeError"
            /\ UNCHANGED <<actors, entity, listening, detached>>
       ELSE /\ err' = "none"
            /\ entity' = [a \in Actors |-> IF entity[a] = "alive" THEN "dead" ELSE entity[a]]
            /\ listening' = [a \in Actors |-> FALSE]
            /\ actors' = IF reset_actor_list THEN <<>> ELSE actors
            /\ detached' = (detached \/ reset_actor_list)
    /\ UNCHANGED <<parent, client, isSensor, serverUp, inScope, excInside, cfgVars, connVars,
                   sensVars, execVars, factVars, drvVars, refActors, repVars, stepVars, attrVars>>

\* A connected Context whose Actors are built, spawned and destroyed while
\* the world is reloaded in between, with and without the list reset.
NextReload ==
    \/ \E a \in SessionActors : a = Len(refActors) + 1 /\ Register(a)
    \/ \E failAt \in 0..NumSessionActors : SpawnAllActors(failAt)
    \/ \E failAt \in 0..NumSessionActors : DestroyAllCall(failAt)
    \/ \E reset_actor_list \in BOOLEAN : ReloadWorld(reset_actor_list)
    \/ ServerToggle

SpecReload == InitLifecycle /\ [][NextReload]_vars

\* C35: every Actor built through the Context's factory, also after a
\* reload_world that reset the actor list, is in Context.actors when build()
\* has returned.
C35_BuiltActorsAreRegistered ==
    [][\A a \in SessionActors : Register(a) => a \in Range(actors')]_vars

\* ------------------------------------------------- the attribute dicts
\* builder.with_attributes(color=value): "self._attributes.update(attributes)"
\* writes into the dict object the Builder holds.
BuilderWithAttributes(value) ==
    /\ builder # NoBuilder
    /\ bagContent' = [bagContent EXCEPT ![builderBag]["color"] = value]
    /\ lastOp' = "with_attributes"
    /\ lastCall' = NoCall
    /\ sortedActors' = <<>>
    /\ calls' = <<>>
    /\ err' = "none"
    /\ UNCHANGED <<ctxVars, sessVars, connVars, cfgVars, sensVars, execVars, factVars, drvVars,
                   listVars, repVars, stepVars, hasName, builderBag, attrBag>>

\* actor.set_attribute("color", value): ignored with a warning on an alive
\* Actor, otherwise "self._attributes[key] = value".
SetAttribute(a, value) ==
    /\ bagContent' = IF IsAlive(entity, a)
                     THEN bagContent
                     ELSE [bagContent EXCEPT ![attrBag[a]]["color"] = value]
    /\ lastOp' = "set_attribute"
    /\ lastCall' = [actor |-> a, option |-> value, alive |-> IsAlive(entity, a)]
    /\ sortedActors' = <<>>
    /\ calls' = <<>>
    /\ err' = "none"
    /\ UNCHANGED <<ctxVars, sessVars, connVars, cfgVars, sensVars, execVars, factVars, drvVars,
                   listVars, repVars, stepVars, hasName, builderBag, attrBag>>

\* Actors, named or not, built by Builders that create() made without and
\* with a template, several from one Builder (build_many), then given
\* attributes and spawned.
InitAttributes ==
    /\ ContextQuiet("client")
    /\ SensorQuiet
    /\ ExecQuiet
    /\ FactoryIdle
    /\ hasName \in {f \in [Actors -> BOOLEAN] : \A a \in Actors \ SessionActors : ~f[a]}

NextAttributes ==
    \/ \E from_blueprint \in {"none", "str"}, from_template \in {"none", "ActorTemplate"} :
          FactoryCreate("Vehicle", from_blueprint, from_template)
    \/ \E value \in AttrValues : BuilderWithAttributes(value)
    \/ \E a \in SessionActors : a = Len(actors) + 1 /\ builder # NoBuilder /\ Register(a)
    \/ \E a \in Range(actors), value \in AttrValues : SetAttribute(a, value)
    \/ \E a \in Range(actors), createFails \in BOOLEAN : SpawnActor(a, createFails)

SpecAttributes == InitAttributes /\ [][NextAttributes]_vars

\* The attributes of an Actor: the content of the dict object it holds.
Attributes(bags, bag, a) == bags[bag[a]]

\* C36: set_attribute on an Actor, and spawn of an Actor, leave the
\* attributes of every other registered Actor as they were.
C36_AttributeBagsIndependent ==
    [][\A a \in SessionActors :
          (\/ \E value \in AttrValues : SetAttribute(a, value)
           \/ \E createFails \in BOOLEAN : SpawnActor(a, createFails))
          => \A b \in Range(actors) \ {a} :
                 Attributes(bagContent', attrBag', b) = Attributes(bagContent, attrBag, b)]_vars

\* C37: after a connect() that raised, the Context holds no client.
C37_FailedConnectLeavesNoHandle ==
    (lastOp = "connect" /\ err # "none") => client = "none"

\* --------------------------------- the progress thread of a passive wait
\* "while flag_show_log:" of _progress_logger, first reached once
\* thread_log.start() has run: the thread goes to sleep, or ends.
ReporterWhile ==
    /\ exKind = "passive"
    /\ exLast # "init"
    /\ repPc \in {"unstarted", "while"}
    /\ repPc' = IF progress = "running" THEN "sleep" ELSE "done"
    /\ UNCHANGED repLog
    /\ UNCHANGED <<execVars, ctxVars, sessVars, connVars, cfgVars, obsVars, sensVars, factVars,
                   drvVars, listVars, stepVars, attrVars>>

\* time.sleep(1) is over, then "if not flag_show_log: break".
ReporterWake ==
    /\ repPc = "sleep"
    /\ repPc' = IF progress = "running" THEN "log" ELSE "done"
    /\ UNCHANGED repLog
    /\ UNCHANGED <<execVars, ctxVars, sessVars, connVars, cfgVars, obsVars, sensVars, factVars,
                   drvVars, listVars, stepVars, attrVars>>

\* "logger(f'Waiting for ...')": the status line is emitted, whatever the
\* flag has become since the test.
ReporterLog ==
    /\ repPc = "log"
    /\ repLog' = IF wPc = "idle" /\ exLast = "wait_return" THEN "after" ELSE "during"
    /\ repPc' = "while"
    /\ UNCHANGED <<execVars, ctxVars, sessVars, connVars, cfgVars, obsVars, sensVars, factVars,
                   drvVars, listVars, stepVars, attrVars>>

\* One wait_* call of a PassiveExecutor and the thread it starts.
InitReporter ==
    /\ InitExec
    /\ exKind = "passive"

NextReporter ==
    \/ \E kind \in {"real", "sim", "ticks"}, arg \in 0..MaxWait :
          exLast = "init" /\ WaitStart(kind, arg)
    \/ PassiveWaitIterate
    \/ PassiveWaitReturn
    \/ PassiveWaitTickFails
    \/ \E d \in 1..MaxStep : ServerStep(d)
    \/ ClockTick
    \/ ReporterWhile
    \/ ReporterWake
    \/ ReporterLog

SpecReporter == InitReporter /\ [][NextReporter]_vars

\* C38: in a PassiveExecutor, whatever the interleaving of the waiting
\* thread and the progress thread, no status line is emitted after the wait_*
\* call returned.
C38_NoLineAfterReturn == repLog # "after"

\* ------------------------------------------------ the order of a teardown
\* A Context used with and without the with statement: Actors are registered,
\* spawned, the Sensors listen, and the Context is disconnected or exited.
NextTeardown ==
    \/ \E a \in SessionActors : a = Len(actors) + 1 /\ Register(a)
    \/ \E failAt \in 0..NumSessionActors : SpawnAllActors(failAt)
    \/ ListenAllSensors
    \/ ConnectCall
    \/ ContextEnter
    \/ \E stopFailAt, destroyFailAt \in 0..NumSessionActors :
          DisconnectCall(stopFailAt, destroyFailAt)
    \/ \E exc \in {"none", "UserError"}, stopFailAt, destroyFailAt \in 0..NumSessionActors :
          ContextExit(exc, stopFailAt, destroyFailAt)

SpecTeardown == InitSession /\ [][NextTeardown]_vars

\* The position of the first entity.destroy() in a log of remote calls
\* (Len(log) + 1: there is none).
FirstDestroy(log) ==
    IF \E i \in 1..Len(log) : log[i][1] = "destroy"
    THEN CHOOSE i \in 1..Len(log) :
            /\ log[i][1] = "destroy"
            /\ \A j \in 1..(i - 1) : log[j][1] # "destroy"
    ELSE Len(log) + 1

\* C39: in disconnect() and in the exit of the session scope (the steps
\* that leave lastOp at "disconnect" or "exit"), when the first
\* entity.destroy() is issued every registered Sensor that was listening has
\* had its entity.stop() issued and is no longer listening, no stop follows a
\* destroy, and when the call clears the client handle every registered
\* Actor that held an entity has had its entity.destroy() issued.
C39_StopThenDestroyThenClear ==
    [][lastOp' \in {"disconnect", "exit"} =>
             /\ FirstDestroy(calls') <= Len(calls') =>
                   \A a \in Range(actors) :
                      (isSensor[a] /\ entity[a] # "none" /\ listening[a]) =>
                         /\ \E j \in 1..(FirstDestroy(calls') - 1) : calls'[j] = <<"stop", a>>
                         /\ ~listening'[a]
             /\ \A i, j \in 1..Len(calls') :
                   (calls'[i][1] = "destroy" /\ calls'[j][1] = "stop") => j < i
             /\ (client # "none" /\ client' = "none") =>
                   \A a \in Range(actors) :
                      entity[a] # "none" =>
                         <<"destroy", a>> \in Range(calls') /\ entity'[a] = "none"]_vars

\* A teardown that stopped a listening Sensor, destroyed another Actor and
\* cleared the handle.
C39_Witness ==
    /\ lastOp \in {"disconnect", "exit"}
    /\ \E a, b \in Range(actors) :
          /\ a # b
          /\ <<"stop", a>> \in Range(calls)
          /\ <<"destroy", b>> \in Range(calls)
    /\ client = "none"
    /\ err = "none"

\* ------------------------------------ waiting on a server with a fixed step
\* ManualExecutor.__init__(context, fixed_delta_seconds, ...).
ManualInit(fixed_delta_seconds) ==
    /\ exKind = "manual"
    /\ exLast = "init"
    /\ fixedDelta' = fixed_delta_seconds
    /\ exLast' = "constructed"
    /\ UNCHANGED <<exKind, exState, srvSync, syncAtCall, exErr, realTime, simTime, wPc, wKind,
                   wArg, wBegin, wSpent, progress, nTick, nStep, nWaitTick, nApply, srvDelta>>
    /\ UNCHANGED <<ctxVars, sessVars, connVars, cfgVars, obsVars, sensVars, factVars, drvVars,
                   listVars, repVars, attrVars>>

\* "setting.fixed_delta_seconds = self._fixed_delta_seconds if option else 0.0"
AppliedDelta(option, fixed) == IF option THEN fixed ELSE 0

\* What one world.tick() advances the simulated time by: the fixed interval
\* on a synchronous server that has one, else whatever the server computes.
StepOfServer(sync, delta, d) == IF sync /\ delta > 0 THEN d = delta ELSE TRUE

\* executor.set_synchronous_mode(option) called by the user, outside a wait:
\* the settings are applied and one world.tick() follows.
SetSynchronousModeCall(option, d) ==
    /\ exKind = "manual"
    /\ exLast # "init"
    /\ wPc = "idle"
    /\ StepOfServer(option, AppliedDelta(option, fixedDelta), d)
    /\ simTime + d <= MaxTime
    /\ srvSync' = SetSynchronousMode(option).srvSync
    /\ srvDelta' = AppliedDelta(option, fixedDelta)
    /\ nApply' = SetSynchronousMode(option).nApply
    /\ nStep' = SetSynchronousMode(option).nStep
    /\ simTime' = simTime + d
    /\ exLast' = "set_synchronous_mode"
    /\ exErr' = "none"
    /\ UNCHANGED <<exKind, exState, syncAtCall, realTime, wPc, wKind, wArg, wBegin, wSpent,
                   progress, nTick, nWaitTick, fixedDelta>>
    /\ UNCHANGED <<ctxVars, sessVars, connVars, cfgVars, obsVars, sensVars, factVars, drvVars,
                   listVars, repVars, attrVars>>

\* wait_sim_seconds(seconds) begins; the clocks have room for the whole call.
WaitSimStart(seconds) ==
    /\ exKind = "manual"
    /\ exLast # "init"
    /\ simTime + seconds + MaxStep - 1 <= MaxTime
    /\ realTime + seconds <= MaxTime
    /\ WaitStart("sim", seconds)

\* One iteration of its loop against this server; the tick takes one unit of
\* real time.
WaitSimIterate ==
    \E d \in 1..MaxStep, stepFails \in BOOLEAN :
       /\ StepOfServer(srvSync, srvDelta, d)
       /\ ManualWaitIterate(d, 1, stepFails)

InitDriven ==
    /\ InitExec
    /\ exKind = "manual"

NextDriven ==
    \/ \E fixed_delta_seconds \in 0..MaxStep : ManualInit(fixed_delta_seconds)
    \/ \E option \in BOOLEAN, d \in 1..MaxStep : SetSynchronousModeCall(option, d)
    \/ \E seconds \in 0..MaxWait : WaitSimStart(seconds)
    \/ WaitSimIterate
    \/ ManualWaitReturn

\* The loop of a wait runs on: the thread that called it is not suspended
\* for ever, and world.tick() returns or raises.
SpecDriven ==
    /\ InitDriven
    /\ [][NextDriven]_vars
    /\ WF_vars(WaitSimIterate)
    /\ WF_vars(ManualWaitReturn)

\* The smallest k with k * step >= duration.
MinSteps(duration, step) ==
    CHOOSE k \in 0..duration :
       /\ k * step >= duration
       /\ \A j \in 0..(k - 1) : j * step < duration

\* The server steps by a positive fixed interval on this client's tick.
Driven == srvSync /\ srvDelta > 0

====
